---- MODULE Spec2Model ----
(***************************************************************************)
(* A model of gorss: the feed refresh engine, the periodic loops and the   *)
(* purge sweep (srv/feed.go), the ingestion handlers (srv/handlers.go) and *)
(* the snapshot lifecycle (db/backup.go).                                  *)
(*                                                                         *)
(* Time is counted in whole hours (the unit of the backoff window).        *)
(* A nullable Go pointer is <<>> (nil) or <<v>>.                           *)
(* The store executes each query as its SQL text says.                     *)
(***************************************************************************)
EXTENDS Integers, Sequences, FiniteSets, TLC

VARIABLES
    now,        \* the wall clock, in hours
    purgeDays,  \* Server.PurgeDays
    remote,     \* the responses the remote side may give to a GET of a feed URL
    feeds,      \* table feeds: id -> row
    articles,   \* table articles: a set of rows, unique on (feedId, guid)
    pass,       \* each refreshAllFeeds goroutine: pc, the rows it loaded, its loop index
    handled,    \* per goroutine and feed: loop iterations run on it in the current pass
    last,       \* the most recent refreshFeedInternal call: who, on what, how it ended
    bo,         \* the backoff policy applied to one feed row at one instant
    fs,         \* the file system: path -> file
    fs0,        \* the file system when the current Restore call began
    rst,        \* the Restore call: pc, arguments, locals, returned error
    wall,       \* the wall clock, in seconds, as Backup and LatestBackupAge read it
    store,      \* the live store: the rows committed so far
    dir,        \* the backup directory: whether it exists, its entries by name
    bk,         \* the Backup call: pc, locals, what it returned
    made,       \* the snapshots returned by successful Backup calls: name -> content
    prn,        \* the most recent PruneBackups call: arguments, what it did
    probe,      \* the most recent LatestBackupAge call: what it returned
    states,     \* table article_states of the feeds' owner: article -> flags
    purge,      \* the purgeOldArticles goroutine: pc, cutoff, count, rows deleted
    cancelled,  \* the context shared by the periodic loops is done
    loops,      \* the goroutine of each periodic loop: where it stands
    sub,        \* the most recent HandleSubscribe or importSingleFeed call
    flt,        \* filterOldItems applied to one item list and cutoff
    cmd,        \* the restore command of cmd/srv: the answer read, where it stands
    req,        \* the HTTP request of HandleRefresh: its context, the pass it began
    env         \* the process environment: GORSS_BACKUP_DIR, the local time zone

vars == <<now, purgeDays, remote, feeds, articles, pass, handled, last, bo, fs, fs0, rst,
          wall, store, dir, bk, made, prn, probe, states, purge, cancelled, loops,
          sub, flt, cmd, req, env>>

refreshVars == <<now, purgeDays, remote, feeds, articles, pass, handled, last>>
backoffVars == <<bo>>
restoreVars == <<fs, fs0, rst>>
snapshotVars == <<wall, store, dir, bk, made, prn, probe>>
purgeVars == <<states, purge>>
loopVars == <<cancelled, loops>>
ingestVars == <<sub, flt>>
entryVars == <<cmd, req, env>>

----------------------------------------------------------------------------
(* Bounds of the model *)

MaxTime == 3
MaxErrors == 2
BackoffMaxErrors == 7
BackoffMaxClock == 36
MaxWall == 11
MaxTxns == 2
MaxItems == 3
LoopsKeep == 1

\* The batch limit of a refreshAll pass, scaled to the model's feed count.
BatchLimit == 1

(* Program constants *)

maxBackoffHours == 24
BackoffExponentCap == 5
RefreshBatchLimit == 1000

----------------------------------------------------------------------------
(* Helpers *)

NoFile == [kind |-> "absent", data |-> <<>>]

Nil == <<>>
Some(x) == <<x>>
IsNil(p) == p = <<>>
Val(p) == p[1]

Min(a, b) == IF a < b THEN a ELSE b

RECURSIVE Pow2(_)
Pow2(n) == IF n <= 0 THEN 1 ELSE 2 * Pow2(n - 1)


----------------------------------------------------------------------------
(* The remote side: what one GET of a feed URL may come back with.          *)
(* net = "fail": the transport failed (client.Do returned an error).        *)
(* Otherwise a response with a status, the ETag and Last-Modified headers   *)
(* and a body that parses into title, link, description and items or fails  *)
(* to parse.                                                                *)

NoItems == <<>>

Item(guid, link, title, pub) ==
    [guid |-> guid, link |-> link, title |-> title, published |-> pub]

Response(net, status, parses, title, link, description, items, etag, lastModified) ==
    [net |-> net, status |-> status, parses |-> parses, title |-> title,
     link |-> link, description |-> description, items |-> items,
     etag |-> etag, lastModified |-> lastModified]

Responses ==
    { Response("fail", 0, FALSE, "", "", "", NoItems, "", ""),
      Response("ok", 304, FALSE, "", "", "", NoItems, "E9", "L9"),
      Response("ok", 200, FALSE, "", "", "", NoItems, "E9", "L9"),
      Response("ok", 200, TRUE, "T1", "S1", "D1",
               << Item("g1", "u1", "a1", Some(0)) >>, "E1", "L1"),
      Response("ok", 200, TRUE, "", "", "",
               << Item("g1", "u1", "a1b", Some(0 - 48)) >>, "", ""),
      Response("ok", 500, TRUE, "T5", "S5", "D5",
               << Item("g5", "u5", "a5", Some(0)) >>, "E5", "L5") }

----------------------------------------------------------------------------
(* srv/feed.go: the fetcher *)

RECURSIVE ParseItems(_)
ParseItems(items) ==
    IF items = <<>> THEN <<>>
    ELSE LET item == Head(items)
             fi == [GUID |-> IF item.guid = "" THEN item.link ELSE item.guid,
                    URL |-> item.link,
                    Title |-> item.title,
                    PublishedAt |-> item.published]
         IN <<fi>> \o ParseItems(Tail(items))

NoResult ==
    [Title |-> "", SiteURL |-> "", Description |-> "", Items |-> <<>>,
     ETag |-> "", LastModified |-> ""]

\* What fetchWithCaching returns for the response resp:
\* kind "error" (err # nil, message msg), "notmod" (errNotModified) or "ok".
fetchWithCaching(url, etag, lastModified, resp) ==
    IF resp.net = "fail"
    THEN [kind |-> "error", msg |-> "fetch: transport", result |-> NoResult]
    ELSE IF resp.status = 304
    THEN [kind |-> "notmod", msg |-> "feed not modified", result |-> NoResult]
    ELSE IF ~resp.parses
    THEN [kind |-> "error", msg |-> "parse feed: syntax", result |-> NoResult]
    ELSE [kind |-> "ok", msg |-> "",
          result |-> [Title |-> resp.title, SiteURL |-> resp.link,
                      Description |-> resp.description,
                      Items |-> ParseItems(resp.items),
                      ETag |-> resp.etag, LastModified |-> resp.lastModified]]

FetchConditional(url, etag, lastModified, resp) ==
    fetchWithCaching(url, etag, lastModified, resp)

\* A variant that also keeps the items published at the cutoff.
RECURSIVE filterOldItems_Inclusive(_, _)
filterOldItems_Inclusive(items, cutoff) ==
    IF items = <<>> THEN <<>>
    ELSE LET item == Head(items)
             rest == filterOldItems_Inclusive(Tail(items), cutoff)
         IN IF IsNil(item.PublishedAt) \/ Val(item.PublishedAt) >= cutoff
            THEN <<item>> \o rest
            ELSE rest

\* Keeps the items with no published date or one after the cutoff, in order.
RECURSIVE filterOldItems(_, _)
filterOldItems(items, cutoff) ==
    IF items = <<>> THEN <<>>
    ELSE LET item == Head(items)
             rest == filterOldItems(Tail(items), cutoff)
         IN IF IsNil(item.PublishedAt) \/ Val(item.PublishedAt) > cutoff
            THEN <<item>> \o rest
            ELSE rest

----------------------------------------------------------------------------
(* srv/feed.go: the backoff policy *)

\* A variant without the cap at maxBackoffHours.
backoffHours_Uncapped(errorCount) ==
    Pow2(Min(errorCount, BackoffExponentCap))

\* backoffHours of shouldSkipFeed: 1 << min(ErrorCount, 5), capped.
backoffHours(errorCount) ==
    LET h == Pow2(Min(errorCount, BackoffExponentCap))
    IN IF h > maxBackoffHours THEN maxBackoffHours ELSE h

\* A variant that still skips at the instant the window ends.
shouldSkipFeed_Inclusive(feed, t) ==
    IF feed.errorCount = 0 \/ IsNil(feed.lastUpdated)
    THEN FALSE
    ELSE LET nextAllowed == Val(feed.lastUpdated) + backoffHours(feed.errorCount)
         IN t <= nextAllowed

\* shouldSkipFeed(feed) evaluated when the clock reads t.
shouldSkipFeed(feed, t) ==
    IF feed.errorCount = 0 \/ IsNil(feed.lastUpdated)
    THEN FALSE
    ELSE LET nextAllowed == Val(feed.lastUpdated) + backoffHours(feed.errorCount)
         IN t < nextAllowed

----------------------------------------------------------------------------
(* db queries *)

\* UPDATE feeds SET title, site_url, description, last_updated, last_error,
\* etag, last_modified, error_count WHERE id = ?
UpdateFeedMeta(tbl, arg) ==
    [id \in DOMAIN tbl |->
        IF id = arg.ID
        THEN [tbl[id] EXCEPT !.title = arg.Title,
                             !.siteUrl = arg.SiteUrl,
                             !.description = arg.Description,
                             !.lastUpdated = arg.LastUpdated,
                             !.lastError = arg.LastError,
                             !.etag = arg.Etag,
                             !.lastModified = arg.LastModified,
                             !.errorCount = arg.ErrorCount]
        ELSE tbl[id]]

\* A variant that inserts a row whatever rows there are.
UpsertArticle_InsertOnly(tbl, arg) ==
    tbl \cup { [feedId |-> arg.FeedID, guid |-> arg.Guid, url |-> arg.Url,
                title |-> arg.Title, publishedAt |-> arg.PublishedAt] }

\* INSERT INTO articles ... ON CONFLICT (feed_id, guid) DO UPDATE SET ...
UpsertArticle(tbl, arg) ==
    { a \in tbl : ~(a.feedId = arg.FeedID /\ a.guid = arg.Guid) }
    \cup { [feedId |-> arg.FeedID, guid |-> arg.Guid, url |-> arg.Url,
            title |-> arg.Title, publishedAt |-> arg.PublishedAt] }

\* ORDER BY last_updated ASC NULLS FIRST: row a may come before row b.
LastUpdatedOrder(a, b) ==
    \/ IsNil(a.lastUpdated)
    \/ /\ ~IsNil(b.lastUpdated)
       /\ Val(a.lastUpdated) <= Val(b.lastUpdated)

\* A variant without the ORDER BY: the rows come by id.
GetAllFeedsForRefresh_ById(tbl, limit) ==
    LET n == Cardinality(DOMAIN tbl)
        orders == { s \in [1..n -> DOMAIN tbl] : \A i, j \in 1..n : i < j => s[i] < s[j] }
    IN { [i \in 1..Min(n, limit) |-> tbl[s[i]]] : s \in orders }

\* SELECT * FROM feeds ORDER BY last_updated ASC NULLS FIRST LIMIT ?
\* The set of row sequences the query may return (rows with equal keys come
\* in any order).
GetAllFeedsForRefresh(tbl, limit) ==
    LET n == Cardinality(DOMAIN tbl)
        orders == { s \in [1..n -> DOMAIN tbl] :
                      /\ \A i, j \in 1..n : i # j => s[i] # s[j]
                      /\ \A i, j \in 1..n :
                            i < j => LastUpdatedOrder(tbl[s[i]], tbl[s[j]]) }
    IN { [i \in 1..Min(n, limit) |-> tbl[s[i]]] : s \in orders }

----------------------------------------------------------------------------
(* srv/feed.go: refreshFeedInternal *)

\* The UpdateFeedMeta parameters written on errNotModified.
NotModifiedParams(feed, t) ==
    [ID |-> feed.id, Title |-> feed.title, SiteUrl |-> feed.siteUrl,
     Description |-> feed.description, LastUpdated |-> Some(t), LastError |-> Nil,
     Etag |-> feed.etag, LastModified |-> feed.lastModified, ErrorCount |-> 0]

\* A variant that stores the error but leaves the error count as loaded.
FetchErrorParams_KeepCount(feed, t, errStr) ==
    [ID |-> feed.id, Title |-> feed.title, SiteUrl |-> feed.siteUrl,
     Description |-> feed.description, LastUpdated |-> Some(t),
     LastError |-> Some(errStr),
     Etag |-> feed.etag, LastModified |-> feed.lastModified,
     ErrorCount |-> feed.errorCount]

\* The UpdateFeedMeta parameters written on any other fetch error.
FetchErrorParams(feed, t, errStr) ==
    [ID |-> feed.id, Title |-> feed.title, SiteUrl |-> feed.siteUrl,
     Description |-> feed.description, LastUpdated |-> Some(t),
     LastError |-> Some(errStr),
     Etag |-> feed.etag, LastModified |-> feed.lastModified,
     ErrorCount |-> feed.errorCount + 1]

\* The UpdateFeedMeta parameters written after a successful fetch.
SuccessParams(feed, result, t) ==
    LET title == IF result.Title = "" THEN feed.title ELSE result.Title
    IN [ID |-> feed.id, Title |-> title, SiteUrl |-> result.SiteURL,
        Description |-> result.Description, LastUpdated |-> Some(t),
        LastError |-> Nil,
        Etag |-> result.ETag, LastModified |-> result.LastModified, ErrorCount |-> 0]

\* The loop "for _, item := range result.Items { q.UpsertArticle(...) }".
RECURSIVE InsertArticles(_, _, _)
InsertArticles(tbl, feedId, items) ==
    IF items = <<>> THEN tbl
    ELSE LET item == Head(items)
         IN InsertArticles(
                UpsertArticle(tbl, [FeedID |-> feedId, Guid |-> item.GUID,
                                    Url |-> item.URL, Title |-> item.Title,
                                    PublishedAt |-> item.PublishedAt]),
                feedId, Tail(items))

\* A variant of the purge-threshold filter that lets every item through.
FilteredItems_Unfiltered(items, t) ==
    items

\* The items stored after the purge-threshold filter.
FilteredItems(items, t) ==
    IF purgeDays > 0 THEN filterOldItems(items, t - 24 * purgeDays) ELSE items

\* The record of one refreshFeedInternal call.
Call(p, feed, outcome, fetched, err) ==
    [proc |-> p, feed |-> feed.id, outcome |-> outcome, fetched |-> fetched,
     err |-> err]

NoCall == [proc |-> "none", feed |-> 0, outcome |-> "none", fetched |-> FALSE, err |-> Nil]

\* A variant that stamps the attempt time on a feed it skips.
refreshFeedInternal_StampOnSkip(p, feed, resp) ==
    IF shouldSkipFeed(feed, now)
    THEN /\ last' = Call(p, feed, "skip", FALSE, Nil)
         /\ feeds' = [feeds EXCEPT ![feed.id].lastUpdated = Some(now)]
         /\ UNCHANGED articles
    ELSE LET r == FetchConditional(feed.url, feed.etag, feed.lastModified, resp)
         IN CASE r.kind = "notmod" ->
                   /\ feeds' = UpdateFeedMeta(feeds, NotModifiedParams(feed, now))
                   /\ last' = Call(p, feed, "notmod", TRUE, Nil)
                   /\ UNCHANGED articles
              [] r.kind = "error" ->
                   /\ feed.errorCount < MaxErrors
                   /\ feeds' = UpdateFeedMeta(feeds, FetchErrorParams(feed, now, r.msg))
                   /\ last' = Call(p, feed, "error", TRUE, Some(r.msg))
                   /\ UNCHANGED articles
              [] r.kind = "ok" ->
                   /\ feeds' = UpdateFeedMeta(feeds, SuccessParams(feed, r.result, now))
                   /\ articles' = InsertArticles(articles, feed.id,
                                                 FilteredItems(r.result.Items, now))
                   /\ last' = Call(p, feed, "ok", TRUE, Nil)

\* refreshFeedInternal(ctx, q, feed), goroutine p, the remote side answering resp.
refreshFeedInternal(p, feed, resp) ==
    IF shouldSkipFeed(feed, now)
    THEN /\ last' = Call(p, feed, "skip", FALSE, Nil)
         /\ UNCHANGED <<feeds, articles>>
    ELSE LET r == FetchConditional(feed.url, feed.etag, feed.lastModified, resp)
         IN CASE r.kind = "notmod" ->
                   /\ feeds' = UpdateFeedMeta(feeds, NotModifiedParams(feed, now))
                   /\ last' = Call(p, feed, "notmod", TRUE, Nil)
                   /\ UNCHANGED articles
              [] r.kind = "error" ->
                   /\ feed.errorCount < MaxErrors
                   /\ feeds' = UpdateFeedMeta(feeds, FetchErrorParams(feed, now, r.msg))
                   /\ last' = Call(p, feed, "error", TRUE, Some(r.msg))
                   /\ UNCHANGED articles
              [] r.kind = "ok" ->
                   /\ feeds' = UpdateFeedMeta(feeds, SuccessParams(feed, r.result, now))
                   /\ articles' = InsertArticles(articles, feed.id,
                                                 FilteredItems(r.result.Items, now))
                   /\ last' = Call(p, feed, "ok", TRUE, Nil)

----------------------------------------------------------------------------
(* srv/feed.go: refreshAllFeeds, one goroutine p per running pass *)

Idle == [pc |-> "idle", loaded |-> <<>>, idx |-> 0]

\* q.GetAllFeedsForRefresh(ctx, 1000)
StartPass(p) ==
    /\ pass[p].pc = "idle"
    /\ \E rows \in GetAllFeedsForRefresh(feeds, RefreshBatchLimit) :
          pass' = [pass EXCEPT ![p] = [pc |-> "run", loaded |-> rows, idx |-> 1]]
    /\ handled' = [handled EXCEPT ![p] = [f \in DOMAIN feeds |-> 0]]
    /\ UNCHANGED <<now, purgeDays, remote, feeds, articles, last>>
    /\ UNCHANGED <<backoffVars, restoreVars, snapshotVars, purgeVars, loopVars, ingestVars, entryVars>>

\* A variant whose loop returns at the first feed that fails.
RefreshNext_AbortOnError(p) ==
    /\ pass[p].pc = "run"
    /\ pass[p].idx <= Len(pass[p].loaded)
    /\ LET feed == pass[p].loaded[pass[p].idx]
       IN /\ \E resp \in remote : refreshFeedInternal(p, feed, resp)
          /\ handled' = [handled EXCEPT ![p][feed.id] = @ + 1]
    /\ pass' = IF IsNil(last'.err) THEN [pass EXCEPT ![p].idx = @ + 1]
                                   ELSE [pass EXCEPT ![p] = Idle]
    /\ UNCHANGED <<now, purgeDays, remote>>
    /\ UNCHANGED <<backoffVars, restoreVars, snapshotVars, purgeVars, loopVars, ingestVars, entryVars>>

\* One iteration of "for _, feed := range feeds": the call, its error only
\* logged, then the one-second sleep.
RefreshNext(p) ==
    /\ pass[p].pc = "run"
    /\ pass[p].idx <= Len(pass[p].loaded)
    /\ LET feed == pass[p].loaded[pass[p].idx]
       IN /\ \E resp \in remote : refreshFeedInternal(p, feed, resp)
          /\ handled' = [handled EXCEPT ![p][feed.id] = @ + 1]
    /\ pass' = [pass EXCEPT ![p].idx = @ + 1]
    /\ UNCHANGED <<now, purgeDays, remote>>
    /\ UNCHANGED <<backoffVars, restoreVars, snapshotVars, purgeVars, loopVars, ingestVars, entryVars>>

\* The loop is over: refreshAllFeeds returns.
EndPass(p) ==
    /\ pass[p].pc = "run"
    /\ pass[p].idx > Len(pass[p].loaded)
    /\ pass' = [pass EXCEPT ![p] = Idle]
    /\ UNCHANGED <<now, purgeDays, remote, feeds, articles, handled, last>>
    /\ UNCHANGED <<backoffVars, restoreVars, snapshotVars, purgeVars, loopVars, ingestVars, entryVars>>

\* srv/handlers.go: HandleUpdateFeed with a request {title, url: ""}: the URL
\* is kept, an empty title keeps the stored one, then UpdateFeedDetails.
UpdateFeedDetails(tbl, arg) ==
    [id \in DOMAIN tbl |->
        IF id = arg.ID THEN [tbl[id] EXCEPT !.title = arg.Title, !.url = arg.Url]
        ELSE tbl[id]]

HandleUpdateFeed(feedID, reqTitle) ==
    /\ feedID \in DOMAIN feeds
    /\ LET feed == feeds[feedID]
           title == IF reqTitle = "" THEN feed.title ELSE reqTitle
           url == feed.url
       IN feeds' = UpdateFeedDetails(feeds, [ID |-> feedID, Title |-> title, Url |-> url])
    /\ UNCHANGED <<now, purgeDays, remote, articles, pass, handled, last>>
    /\ UNCHANGED <<backoffVars, restoreVars, snapshotVars, purgeVars, loopVars, ingestVars, entryVars>>

\* The clock advances by an hour.
Tick ==
    /\ now < MaxTime
    /\ now' = now + 1
    /\ UNCHANGED <<purgeDays, remote, feeds, articles, pass, handled, last>>
    /\ UNCHANGED <<backoffVars, restoreVars, snapshotVars, purgeVars, loopVars, ingestVars, entryVars>>

----------------------------------------------------------------------------
(* The backoff policy on its own: shouldSkipFeed called on the row bo.feed  *)
(* when the clock reads bo.at; bo.skip is what it returned and bo.hours the *)
(* backoffHours it computed, when it got that far.                          *)

CallShouldSkipFeed ==
    /\ IsNil(bo.skip)
    /\ bo' = [bo EXCEPT
                !.skip = Some(shouldSkipFeed(bo.feed, bo.at)),
                !.hours = IF bo.feed.errorCount = 0 \/ IsNil(bo.feed.lastUpdated)
                          THEN Nil
                          ELSE Some(backoffHours(bo.feed.errorCount))]
    /\ UNCHANGED <<refreshVars, restoreVars, snapshotVars, purgeVars, loopVars, ingestVars, entryVars>>

\* The next call: the same row, an hour later.
BackoffLater ==
    /\ ~IsNil(bo.skip)
    /\ bo.at < BackoffMaxClock
    /\ bo' = [bo EXCEPT !.at = @ + 1, !.skip = Nil, !.hours = Nil]
    /\ UNCHANGED <<refreshVars, restoreVars, snapshotVars, purgeVars, loopVars, ingestVars, entryVars>>

----------------------------------------------------------------------------
(* db/backup.go: Restore(backupPath, targetDBPath)                          *)
(* A file is absent, a directory, or a regular file holding a sequence of   *)
(* blocks. The target is "db" and its side files "db-wal" and "db-shm".     *)

Paths == {"snap", "db", "db-wal", "db-shm"}

\* targetDBPath + suffix, for the suffixes "", "-wal", "-shm" in that order.
TargetPaths == <<"db", "db-wal", "db-shm">>

File(data) == [kind |-> "file", data |-> data]
Dir == [kind |-> "dir", data |-> <<>>]

\* The driver opens and pings the file: a file that starts with the SQLite
\* header is a database, and so is a file of no bytes (a new, empty one).
IsDatabase(data) == data = <<>> \/ data[1] = "SQLite"

NoErr == Nil
Err(op, path) == Some(<<op, path>>)

RestoreIdle == [pc |-> "idle", backupPath |-> "", i |-> 0, data |-> <<>>, err |-> NoErr]

Returns(err) == [rst EXCEPT !.pc = "done", !.err = err]

\* The call begins.
RestoreCall(backupPath) ==
    /\ rst.pc = "idle"
    /\ rst' = [RestoreIdle EXCEPT !.pc = "stat", !.backupPath = backupPath]
    /\ fs0' = fs
    /\ UNCHANGED fs
    /\ UNCHANGED <<refreshVars, backoffVars, snapshotVars, purgeVars, loopVars, ingestVars, entryVars>>

\* A variant that does not reject a file of size 0.
RestoreStat_NoSizeCheck ==
    /\ rst.pc = "stat"
    /\ LET info == fs[rst.backupPath]
       IN rst' = IF info.kind = "absent" THEN Returns(Err("backup file", rst.backupPath))
                 ELSE IF info.kind = "dir" THEN Returns(Err("is a directory", rst.backupPath))
                 ELSE [rst EXCEPT !.pc = "open"]
    /\ UNCHANGED <<fs, fs0>>
    /\ UNCHANGED <<refreshVars, backoffVars, snapshotVars, purgeVars, loopVars, ingestVars, entryVars>>

\* os.Stat(backupPath), info.IsDir(), info.Size() == 0
RestoreStat ==
    /\ rst.pc = "stat"
    /\ LET info == fs[rst.backupPath]
       IN rst' = IF info.kind = "absent" THEN Returns(Err("backup file", rst.backupPath))
                 ELSE IF info.kind = "dir" THEN Returns(Err("is a directory", rst.backupPath))
                 ELSE IF Len(info.data) = 0 THEN Returns(Err("is empty", rst.backupPath))
                 ELSE [rst EXCEPT !.pc = "open"]
    /\ UNCHANGED <<fs, fs0>>
    /\ UNCHANGED <<refreshVars, backoffVars, snapshotVars, purgeVars, loopVars, ingestVars, entryVars>>

\* sql.Open(backupPath + "?mode=ro"), testDB.Ping(), testDB.Close()
RestoreValidate ==
    /\ rst.pc = "open"
    /\ rst' = IF ~IsDatabase(fs[rst.backupPath].data)
              THEN Returns(Err("not a valid database", rst.backupPath))
              ELSE [rst EXCEPT !.pc = "remove", !.i = 1]
    /\ UNCHANGED <<fs, fs0>>
    /\ UNCHANGED <<refreshVars, backoffVars, snapshotVars, purgeVars, loopVars, ingestVars, entryVars>>

\* A variant that removes the primary file only.
RestoreRemove_PrimaryOnly ==
    /\ rst.pc = "remove"
    /\ LET path == TargetPaths[rst.i]
           next == [rst EXCEPT !.pc = "read", !.i = 0]
       IN IF fs[path].kind = "absent"
          THEN /\ rst' = next
               /\ UNCHANGED fs
          ELSE \/ /\ fs' = [fs EXCEPT ![path] = NoFile]
                  /\ rst' = next
               \/ /\ rst' = Returns(Err("remove", path))
                  /\ UNCHANGED fs
    /\ UNCHANGED fs0
    /\ UNCHANGED <<refreshVars, backoffVars, snapshotVars, purgeVars, loopVars, ingestVars, entryVars>>

\* One iteration of the removal loop: os.Remove(targetDBPath + suffix). A file
\* that is not there is passed over; removing one that is there succeeds or
\* fails, as the file system decides.
RestoreRemove ==
    /\ rst.pc = "remove"
    /\ LET path == TargetPaths[rst.i]
           next == IF rst.i < Len(TargetPaths)
                   THEN [rst EXCEPT !.i = @ + 1]
                   ELSE [rst EXCEPT !.pc = "read", !.i = 0]
       IN IF fs[path].kind = "absent"
          THEN /\ rst' = next
               /\ UNCHANGED fs
          ELSE \/ /\ fs' = [fs EXCEPT ![path] = NoFile]
                  /\ rst' = next
               \/ /\ rst' = Returns(Err("remove", path))
                  /\ UNCHANGED fs
    /\ UNCHANGED fs0
    /\ UNCHANGED <<refreshVars, backoffVars, snapshotVars, purgeVars, loopVars, ingestVars, entryVars>>

\* os.ReadFile(backupPath): fails when the file is not (or no longer) there,
\* and may fail on a file that is.
RestoreRead ==
    /\ rst.pc = "read"
    /\ \/ /\ fs[rst.backupPath].kind = "file"
          /\ rst' = [rst EXCEPT !.pc = "write", !.data = fs[rst.backupPath].data]
       \/ rst' = Returns(Err("read backup", rst.backupPath))
    /\ UNCHANGED <<fs, fs0>>
    /\ UNCHANGED <<refreshVars, backoffVars, snapshotVars, purgeVars, loopVars, ingestVars, entryVars>>

\* os.WriteFile(targetDBPath, data, 0o644): writes all of data, or fails
\* having created nothing or a file that holds a proper prefix of data.
RestoreWrite ==
    /\ rst.pc = "write"
    /\ LET target == TargetPaths[1]
       IN \/ /\ fs' = [fs EXCEPT ![target] = File(rst.data)]
             /\ rst' = Returns(NoErr)
          \/ /\ \/ UNCHANGED fs
                \/ \E k \in 0..(Len(rst.data) - 1) :
                      fs' = [fs EXCEPT ![target] = File(SubSeq(rst.data, 1, k))]
             /\ rst' = Returns(Err("write target", target))
    /\ UNCHANGED fs0
    /\ UNCHANGED <<refreshVars, backoffVars, snapshotVars, purgeVars, loopVars, ingestVars, entryVars>>

\* The caller has the result; the next call may begin.
RestoreReturn ==
    /\ rst.pc = "done"
    /\ rst' = RestoreIdle
    /\ UNCHANGED <<fs, fs0>>
    /\ UNCHANGED <<refreshVars, backoffVars, snapshotVars, purgeVars, loopVars, ingestVars, entryVars>>

----------------------------------------------------------------------------
(* db/backup.go: file names in the backup directory                         *)
(* A name is a sequence of tokens, each standing for a fixed run of bytes:  *)
(* "gorss-", a decimal digit, "z", ".db", "other", ".txt". The timestamp    *)
(* layout "2006-01-02-150405" is fixed-width, zero-padded decimal; the      *)
(* model keeps these traits in a stamp of two decimal digits that counts    *)
(* seconds.                                                                 *)

Digits == <<"0", "1", "2", "3", "4", "5", "6", "7", "8", "9">>

IsDigit(c) == \E i \in 1..Len(Digits) : Digits[i] = c
DigitVal(c) == (CHOOSE i \in 1..Len(Digits) : Digits[i] = c) - 1

\* The byte order of the tokens: '.' < '0'..'9' < 'g' < 'o' < 'z'.
CharRank(c) ==
    CASE c = ".db" -> 0
      [] c = ".txt" -> 1
      [] IsDigit(c) -> 2 + DigitVal(c)
      [] c = "gorss-" -> 12
      [] c = "other" -> 13
      [] OTHER -> 14

\* a < b on Go strings: byte-wise, a proper prefix first.
RECURSIVE StringLess(_, _)
StringLess(a, b) ==
    IF b = <<>> THEN FALSE
    ELSE IF a = <<>> THEN TRUE
    ELSE IF Head(a) = Head(b) THEN StringLess(Tail(a), Tail(b))
    ELSE CharRank(Head(a)) < CharRank(Head(b))

\* sort.Strings, and the order in which os.ReadDir lists a directory.
RECURSIVE SortStrings(_)
SortStrings(S) ==
    IF S = {} THEN <<>>
    ELSE LET m == CHOOSE x \in S : \A y \in S : y = x \/ StringLess(x, y)
         IN <<m>> \o SortStrings(S \ {m})

HasPrefix(name, prefix) == Len(name) >= 1 /\ name[1] = prefix
HasSuffix(name, suffix) == Len(name) >= 1 /\ name[Len(name)] = suffix
TrimPrefix(name, prefix) == IF HasPrefix(name, prefix) THEN Tail(name) ELSE name
TrimSuffix(name, suffix) ==
    IF HasSuffix(name, suffix) THEN SubSeq(name, 1, Len(name) - 1) ELSE name

\* t.Format("2006-01-02-150405") for the wall-clock reading t: the layout has
\* no zone.
Format(t) == << Digits[((t \div 10) % 10) + 1], Digits[(t % 10) + 1] >>

\* time.Parse("2006-01-02-150405", ts): whether it succeeds, and the time,
\* which Parse takes for UTC as the layout has no zone.
ParseOK(ts) == Len(ts) = 2 /\ \A i \in 1..Len(ts) : IsDigit(ts[i])
ParseTime(ts) == 10 * DigitVal(ts[1]) + DigitVal(ts[2])

\* fmt.Sprintf("gorss-%s.db", timestamp)
SnapshotName(t) == <<"gorss-">> \o Format(t) \o <<".db">>

\* The part of a name between "gorss-" and ".db".
Stamp(name) == TrimSuffix(TrimPrefix(name, "gorss-"), ".db")

----------------------------------------------------------------------------
(* The backup directory: whether it exists, its entries by name (a regular  *)
(* file or a subdirectory), and the entries that can be neither written nor *)
(* removed.                                                                 *)

NoDir == [exists |-> FALSE, files |-> [n \in {} |-> NoFile], locked |-> {}]

Entries(d) == DOMAIN d.files

\* os.ReadDir(backupDir)
ReadDir(d) ==
    IF d.exists THEN [err |-> NoErr, entries |-> SortStrings(Entries(d))]
    ELSE [err |-> Err("open", "backupDir"), entries |-> <<>>]

\* os.Remove(path) succeeds on an entry that is there and not locked.
CanRemove(d, name) == name \in Entries(d) /\ name \notin d.locked

RemoveFile(d, name) ==
    [d EXCEPT !.files = [n \in Entries(d) \ {name} |-> d.files[n]]]

WriteFile(d, name, data) ==
    [d EXCEPT !.files = [n \in Entries(d) \cup {name} |->
                            IF n = name THEN File(data) ELSE d.files[n]]]

Range(s) == { s[i] : i \in 1..Len(s) }

----------------------------------------------------------------------------
(* db/backup.go: PruneBackups(backupDir, keep)                              *)

\* The result of a call: the directory afterwards, the error returned, the
\* removals attempted in order and those that failed.
PruneResult(d, err, tried, failed) ==
    [dir |-> d, err |-> err, tried |-> tried, failed |-> failed]

\* "gorss-*.db": the names PruneBackups collects.
IsBackupName(name) == HasPrefix(name, "gorss-") /\ HasSuffix(name, ".db")

\* A variant that gives up at the first removal that fails.
RECURSIVE PruneLoop_StopAtFailure(_, _, _, _)
PruneLoop_StopAtFailure(d, names, tried, failed) ==
    IF names = <<>> THEN PruneResult(d, NoErr, tried, failed)
    ELSE LET name == Head(names)
         IN IF CanRemove(d, name)
            THEN PruneLoop_StopAtFailure(RemoveFile(d, name), Tail(names),
                                         Append(tried, name), failed)
            ELSE PruneResult(d, Err("remove", name), Append(tried, name),
                             failed \cup {name})

\* "for _, name := range backups[:len(backups)-keep]": a removal that fails is
\* logged and the loop goes on.
RECURSIVE PruneLoop(_, _, _, _)
PruneLoop(d, names, tried, failed) ==
    IF names = <<>> THEN PruneResult(d, NoErr, tried, failed)
    ELSE LET name == Head(names)
         IN IF CanRemove(d, name)
            THEN PruneLoop(RemoveFile(d, name), Tail(names),
                           Append(tried, name), failed)
            ELSE PruneLoop(d, Tail(names), Append(tried, name),
                           failed \cup {name})

\* A variant that removes the first keep names.
PruneCandidates_FirstKeep(backups, keep) ==
    SubSeq(backups, 1, keep)

\* backups[:len(backups)-keep]
PruneCandidates(backups, keep) ==
    SubSeq(backups, 1, Len(backups) - keep)

\* A variant that takes a directory it cannot read for an empty one.
PruneBackups_IgnoreReadError(d, keep) ==
    IF keep <= 0 THEN PruneResult(d, NoErr, <<>>, {})
    ELSE LET rd == ReadDir(d)
             backups == SortStrings(Range(SelectSeq(rd.entries,
                            LAMBDA n : d.files[n].kind # "dir" /\ IsBackupName(n))))
         IN IF Len(backups) <= keep THEN PruneResult(d, NoErr, <<>>, {})
            ELSE PruneLoop(d, PruneCandidates(backups, keep), <<>>, {})

PruneBackups(d, keep) ==
    IF keep <= 0 THEN PruneResult(d, NoErr, <<>>, {})
    ELSE LET rd == ReadDir(d)
         IN IF ~IsNil(rd.err)
            THEN PruneResult(d, Err("read backup dir", "backupDir"), <<>>, {})
            ELSE LET backups == SortStrings(Range(SelectSeq(rd.entries,
                                    LAMBDA n : d.files[n].kind # "dir" /\ IsBackupName(n))))
                 IN IF Len(backups) <= keep THEN PruneResult(d, NoErr, <<>>, {})
                    ELSE PruneLoop(d, PruneCandidates(backups, keep), <<>>, {})

NoPrune ==
    [called |-> FALSE, keep |-> 0, before |-> NoDir, after |-> NoDir, err |-> NoErr,
     tried |-> <<>>, failed |-> {}, prev |-> Nil]

\* The record of a call that returned r, and of the call before it.
PruneCalled(keep, r) ==
    [called |-> TRUE, keep |-> keep, before |-> dir, after |-> r.dir,
     err |-> r.err, tried |-> r.tried, failed |-> r.failed,
     prev |-> IF prn.called
              THEN Some([keep |-> prn.keep, before |-> prn.before, after |-> prn.after])
              ELSE Nil]

\* One call of PruneBackups(backupDir, keep).
CallPruneBackups(keep) ==
    /\ LET r == PruneBackups(dir, keep)
       IN /\ dir' = r.dir
          /\ prn' = PruneCalled(keep, r)
    /\ UNCHANGED <<wall, store, bk, made, probe>>
    /\ UNCHANGED <<refreshVars, backoffVars, restoreVars, purgeVars, loopVars, ingestVars, entryVars>>

----------------------------------------------------------------------------
(* db/backup.go: LatestBackupAge(backupDir)                                 *)

maxDuration == 2147483647

\* The entries latestValidBackup takes as candidates, in listing order.
Candidates(d, entries) ==
    LET names == SelectSeq(entries,
                     LAMBDA n : /\ d.files[n].kind # "dir"
                                /\ IsBackupName(n)
                                /\ ParseOK(Stamp(n)))
    IN [i \in 1..Len(names) |-> [name |-> names[i], ts |-> ParseTime(Stamp(names[i]))]]

\* A variant that sorts the oldest candidate first.
RECURSIVE SortNewestFirst_Oldest(_)
SortNewestFirst_Oldest(cs) ==
    IF cs = <<>> THEN <<>>
    ELSE LET i == CHOOSE i \in 1..Len(cs) : \A j \in 1..Len(cs) : cs[i].ts <= cs[j].ts
         IN <<cs[i]>> \o SortNewestFirst_Oldest(SubSeq(cs, 1, i - 1) \o SubSeq(cs, i + 1, Len(cs)))

\* sort.Slice(candidates, func(i, j) { return candidates[i].ts.After(candidates[j].ts) })
RECURSIVE SortNewestFirst(_)
SortNewestFirst(cs) ==
    IF cs = <<>> THEN <<>>
    ELSE LET i == CHOOSE i \in 1..Len(cs) : \A j \in 1..Len(cs) : cs[i].ts >= cs[j].ts
         IN <<cs[i]>> \o SortNewestFirst(SubSeq(cs, 1, i - 1) \o SubSeq(cs, i + 1, Len(cs)))

\* "for _, c := range candidates": the first one that is not empty and that
\* opens and answers the ping, when the clock reads t.
RECURSIVE FirstValid(_, _, _)
FirstValid(d, cs, t) ==
    IF cs = <<>> THEN [age |-> maxDuration, path |-> <<>>]
    ELSE LET c == Head(cs)
             data == d.files[c.name].data
         IN IF Len(data) = 0 THEN FirstValid(d, Tail(cs), t)
            ELSE IF ~IsDatabase(data) THEN FirstValid(d, Tail(cs), t)
            ELSE [age |-> t - c.ts, path |-> c.name]

latestValidBackup(d, t) ==
    LET rd == ReadDir(d)
    IN IF ~IsNil(rd.err) THEN [age |-> maxDuration, path |-> <<>>]
       ELSE FirstValid(d, SortNewestFirst(Candidates(d, rd.entries)), t)

LatestBackupAge(d, t) == latestValidBackup(d, t).age

NoProbe == [called |-> FALSE, at |-> 0, dir |-> NoDir, age |-> 0]

\* One call of LatestBackupAge(backupDir).
CallLatestBackupAge ==
    /\ probe' = [called |-> TRUE, at |-> wall, dir |-> dir,
                 age |-> LatestBackupAge(dir, wall)]
    /\ UNCHANGED <<wall, store, dir, bk, made, prn>>
    /\ UNCHANGED <<refreshVars, backoffVars, restoreVars, purgeVars, loopVars, ingestVars, entryVars>>

----------------------------------------------------------------------------
(* db/backup.go: Backup(srcDB, backupDir)                                   *)
(* The live store holds the rows 1..store.rows; a writer's transaction      *)
(* writes two rows and commits, store.pending counting the rows it has      *)
(* written and not yet committed.                                           *)

\* The bytes of a database file that holds the rows 1..n.
Image(n) == <<"SQLite">> \o [i \in 1..n |-> i]

\* bk.at is the instant at which the call read the clock for the name.
BackupIdle ==
    [pc |-> "idle", dst |-> <<>>, view |-> 0, rows0 |-> 0, seen |-> {},
     dir0 |-> NoDir, path |-> <<>>, err |-> NoErr, at |-> 0]

BackupReturns(path, err) == [bk EXCEPT !.pc = "done", !.path = path, !.err = err]

\* The call begins.
BackupCall ==
    /\ bk.pc = "idle"
    /\ bk' = [BackupIdle EXCEPT !.pc = "mkdir", !.rows0 = store.rows,
                                !.seen = {store.rows}, !.dir0 = dir]
    /\ UNCHANGED <<wall, store, dir, made, prn, probe>>
    /\ UNCHANGED <<refreshVars, backoffVars, restoreVars, purgeVars, loopVars, ingestVars, entryVars>>

\* What time.Now() shows when formatted: the wall clock of the instant t in
\* the process's local zone, env.TZ seconds east of UTC.
LocalTime(t) == t + env.TZ

\* os.MkdirAll(backupDir, 0o755), then the name from the clock:
\* time.Now().Format("2006-01-02-150405"), in local time.
BackupMkdir ==
    /\ bk.pc = "mkdir"
    /\ \/ /\ dir' = [dir EXCEPT !.exists = TRUE]
          /\ bk' = [bk EXCEPT !.pc = "vacuum", !.dst = SnapshotName(LocalTime(wall)),
                              !.at = wall]
       \/ /\ ~dir.exists
          /\ bk' = BackupReturns(<<>>, Err("create backup dir", "backupDir"))
          /\ UNCHANGED dir
    /\ UNCHANGED <<wall, store, made, prn, probe>>
    /\ UNCHANGED <<refreshVars, backoffVars, restoreVars, purgeVars, loopVars, ingestVars, entryVars>>

\* VACUUM INTO takes a destination that is not there, or one that is an empty
\* file it can write.
CanVacuumInto(d, name) ==
    IF name \in Entries(d) THEN d.files[name] = File(<<>>) /\ name \notin d.locked
    ELSE TRUE

\* What VACUUM INTO reads: the committed rows, in one read transaction.
VacuumView(s) == s.rows

\* A variant that reads the rows as they lie in the file, committed or not.
BackupVacuum_DirtyRead ==
    /\ bk.pc = "vacuum"
    /\ \/ /\ dir.exists
          /\ CanVacuumInto(dir, bk.dst)
          /\ dir' = WriteFile(dir, bk.dst, <<>>)
          /\ bk' = [bk EXCEPT !.pc = "copy", !.view = store.rows + store.pending]
       \/ /\ bk' = [bk EXCEPT !.pc = "fail", !.err = Err("vacuum into", bk.dst)]
          /\ UNCHANGED dir
    /\ UNCHANGED <<wall, store, made, prn, probe>>
    /\ UNCHANGED <<refreshVars, backoffVars, restoreVars, purgeVars, loopVars, ingestVars, entryVars>>

\* srcDB.Exec("VACUUM INTO ?", dstPath) starts: it refuses a destination that
\* is there and not an empty file, else opens its read transaction and
\* creates the destination; it may also fail for a reason of its own.
BackupVacuum ==
    /\ bk.pc = "vacuum"
    /\ \/ /\ dir.exists
          /\ CanVacuumInto(dir, bk.dst)
          /\ dir' = WriteFile(dir, bk.dst, <<>>)
          /\ bk' = [bk EXCEPT !.pc = "copy", !.view = VacuumView(store)]
       \/ /\ bk' = [bk EXCEPT !.pc = "fail", !.err = Err("vacuum into", bk.dst)]
          /\ UNCHANGED dir
    /\ UNCHANGED <<wall, store, made, prn, probe>>
    /\ UNCHANGED <<refreshVars, backoffVars, restoreVars, purgeVars, loopVars, ingestVars, entryVars>>

\* VACUUM INTO writes the rows of its read transaction and Backup returns the
\* path; or the write fails part-way and leaves what it had written.
BackupCopy ==
    /\ bk.pc = "copy"
    /\ LET image == Image(bk.view)
       IN \/ /\ dir' = WriteFile(dir, bk.dst, image)
             /\ bk' = BackupReturns(bk.dst, NoErr)
             /\ made' = [n \in DOMAIN made \cup {bk.dst} |->
                            IF n = bk.dst THEN image ELSE made[n]]
          \/ /\ \E k \in 0..(Len(image) - 1) :
                   dir' = WriteFile(dir, bk.dst, SubSeq(image, 1, k))
             /\ bk' = [bk EXCEPT !.pc = "fail", !.err = Err("vacuum into", bk.dst)]
             /\ UNCHANGED made
    /\ UNCHANGED <<wall, store, prn, probe>>
    /\ UNCHANGED <<refreshVars, backoffVars, restoreVars, purgeVars, loopVars, ingestVars, entryVars>>

\* A variant that returns the error and leaves the destination as it is.
BackupFail_NoCleanup ==
    /\ bk.pc = "fail"
    /\ bk' = BackupReturns(<<>>, bk.err)
    /\ UNCHANGED <<wall, store, dir, made, prn, probe>>
    /\ UNCHANGED <<refreshVars, backoffVars, restoreVars, purgeVars, loopVars, ingestVars, entryVars>>

\* "_ = os.Remove(dstPath)", then return "", err.
BackupFail ==
    /\ bk.pc = "fail"
    /\ dir' = IF CanRemove(dir, bk.dst) THEN RemoveFile(dir, bk.dst) ELSE dir
    /\ bk' = BackupReturns(<<>>, bk.err)
    /\ UNCHANGED <<wall, store, made, prn, probe>>
    /\ UNCHANGED <<refreshVars, backoffVars, restoreVars, purgeVars, loopVars, ingestVars, entryVars>>

\* The caller has the result; the next call may begin.
BackupReturn ==
    /\ bk.pc = "done"
    /\ bk' = BackupIdle
    /\ UNCHANGED <<wall, store, dir, made, prn, probe>>
    /\ UNCHANGED <<refreshVars, backoffVars, restoreVars, purgeVars, loopVars, ingestVars, entryVars>>

\* A writer of the live store writes the first row of its transaction.
WriteBegin ==
    /\ store.pending = 0
    /\ store.rows + 2 <= 2 * MaxTxns
    /\ store' = [store EXCEPT !.pending = 1]
    /\ UNCHANGED <<wall, dir, bk, made, prn, probe>>
    /\ UNCHANGED <<refreshVars, backoffVars, restoreVars, purgeVars, loopVars, ingestVars, entryVars>>

\* It writes the second row and commits.
WriteCommit ==
    /\ store.pending = 1
    /\ store' = [rows |-> store.rows + 2, pending |-> 0]
    /\ bk' = IF bk.pc \in {"mkdir", "vacuum", "copy"}
             THEN [bk EXCEPT !.seen = @ \cup {store.rows + 2}]
             ELSE bk
    /\ UNCHANGED <<wall, dir, made, prn, probe>>
    /\ UNCHANGED <<refreshVars, backoffVars, restoreVars, purgeVars, loopVars, ingestVars, entryVars>>

\* The wall clock advances by a second.
TickSecond ==
    /\ wall < MaxWall
    /\ wall' = wall + 1
    /\ UNCHANGED <<store, dir, bk, made, prn, probe>>
    /\ UNCHANGED <<refreshVars, backoffVars, restoreVars, purgeVars, loopVars, ingestVars, entryVars>>

\* srv/feed.go, runBackup: Backup returned a path, PruneBackups(backupDir, keep)
\* follows in the same goroutine.
RunBackupPrune(keep) ==
    /\ bk.pc = "done"
    /\ IsNil(bk.err)
    /\ LET r == PruneBackups(dir, keep)
       IN /\ dir' = r.dir
          /\ prn' = PruneCalled(keep, r)
    /\ bk' = BackupIdle
    /\ UNCHANGED <<wall, store, made, probe>>
    /\ UNCHANGED <<refreshVars, backoffVars, restoreVars, purgeVars, loopVars, ingestVars, entryVars>>

----------------------------------------------------------------------------
(* srv/feed.go: purgeOldArticles, and the handlers that set an article's    *)
(* read and starred flags. states holds the article_states rows of the      *)
(* feeds' owner, by article.                                                *)

ArticleKey(a) == <<a.feedId, a.guid>>

NewState == [isRead |-> FALSE, isStarred |-> FALSE]

\* INSERT INTO article_states ... ON CONFLICT (user_id, article_id) DO UPDATE SET ...
UpsertState(tbl, key, field, value) ==
    [k \in DOMAIN tbl \cup {key} |->
        IF k = key
        THEN [(IF key \in DOMAIN tbl THEN tbl[key] ELSE NewState) EXCEPT ![field] = value]
        ELSE tbl[k]]

SetArticleRead(tbl, key) == UpsertState(tbl, key, "isRead", TRUE)
SetArticleUnread(tbl, key) == UpsertState(tbl, key, "isRead", FALSE)
SetArticleStarred(tbl, key) == UpsertState(tbl, key, "isStarred", TRUE)
SetArticleUnstarred(tbl, key) == UpsertState(tbl, key, "isStarred", FALSE)

\* A variant whose WHERE clause does not look at is_starred.
CountOldReadArticles_AnyStar(arts, sts, cutoff) ==
    Cardinality({ a \in arts :
                    /\ a.feedId \in DOMAIN feeds
                    /\ ArticleKey(a) \in DOMAIN sts
                    /\ sts[ArticleKey(a)].isRead
                    /\ ~IsNil(a.publishedAt)
                    /\ Val(a.publishedAt) < cutoff })

\* SELECT COUNT(*) FROM articles a JOIN feeds f JOIN article_states s
\* WHERE s.is_read = 1 AND s.is_starred = 0 AND a.published_at < ?
CountOldReadArticles(arts, sts, cutoff) ==
    Cardinality({ a \in arts :
                    /\ a.feedId \in DOMAIN feeds
                    /\ ArticleKey(a) \in DOMAIN sts
                    /\ sts[ArticleKey(a)].isRead
                    /\ ~sts[ArticleKey(a)].isStarred
                    /\ ~IsNil(a.publishedAt)
                    /\ Val(a.publishedAt) < cutoff })

\* A variant whose WHERE clause does not look at is_starred.
PurgeOldReadArticles_AnyStar(arts, sts, cutoff) ==
    arts \ { a \in arts :
               /\ a.feedId \in DOMAIN feeds
               /\ ArticleKey(a) \in DOMAIN sts
               /\ sts[ArticleKey(a)].isRead
               /\ ~IsNil(a.publishedAt)
               /\ Val(a.publishedAt) < cutoff }

\* DELETE FROM articles WHERE id IN (SELECT a.id ... WHERE s.is_read = 1
\* AND s.is_starred = 0 AND a.published_at < ?): the rows that remain.
PurgeOldReadArticles(arts, sts, cutoff) ==
    arts \ { a \in arts :
               /\ a.feedId \in DOMAIN feeds
               /\ ArticleKey(a) \in DOMAIN sts
               /\ sts[ArticleKey(a)].isRead
               /\ ~sts[ArticleKey(a)].isStarred
               /\ ~IsNil(a.publishedAt)
               /\ Val(a.publishedAt) < cutoff }

PurgeIdle ==
    [pc |-> "idle", cutoff |-> 0, count |-> 0, counted |-> {}, deleted |-> {},
     spared |-> {}]

\* A variant whose horizon is half the retention period.
PurgeStart_ShortHorizon ==
    /\ purge.pc = "idle"
    /\ purgeDays > 0
    /\ purge' = [PurgeIdle EXCEPT !.pc = "count", !.cutoff = now - 12 * purgeDays]
    /\ UNCHANGED <<refreshVars, states>>
    /\ UNCHANGED <<backoffVars, restoreVars, snapshotVars, loopVars, ingestVars, entryVars>>

\* purgeOldArticles begins: cutoff := time.Now().AddDate(0, 0, -s.PurgeDays).
\* StartAutoPurge starts no goroutine when PurgeDays <= 0.
PurgeStart ==
    /\ purge.pc = "idle"
    /\ purgeDays > 0
    /\ purge' = [PurgeIdle EXCEPT !.pc = "count", !.cutoff = now - 24 * purgeDays]
    /\ UNCHANGED <<refreshVars, states>>
    /\ UNCHANGED <<backoffVars, restoreVars, snapshotVars, loopVars, ingestVars, entryVars>>

\* q.CountOldReadArticles(ctx, &cutoff); count == 0 returns.
PurgeCount ==
    /\ purge.pc = "count"
    /\ LET count == CountOldReadArticles(articles, states, purge.cutoff)
       IN purge' = IF count = 0 THEN PurgeIdle
                   ELSE [purge EXCEPT !.pc = "delete", !.count = count,
                                      !.counted = articles \
                                          PurgeOldReadArticles(articles, states,
                                                               purge.cutoff)]
    /\ UNCHANGED <<refreshVars, states>>
    /\ UNCHANGED <<backoffVars, restoreVars, snapshotVars, loopVars, ingestVars, entryVars>>

\* q.PurgeOldReadArticles(ctx, &cutoff): one DELETE statement; the state rows
\* of a deleted article go with it (ON DELETE CASCADE).
PurgeDelete ==
    /\ purge.pc = "delete"
    /\ LET kept == PurgeOldReadArticles(articles, states, purge.cutoff)
       IN /\ articles' = kept
          /\ states' = [k \in { ArticleKey(a) : a \in kept } \cap DOMAIN states |-> states[k]]
          /\ purge' = [purge EXCEPT
                          !.pc = "idle", !.deleted = articles \ kept,
                          !.counted = {},
                          !.spared = { a \in kept \cap purge.counted :
                                         /\ ArticleKey(a) \in DOMAIN states
                                         /\ states[ArticleKey(a)].isStarred }]
    /\ UNCHANGED <<now, purgeDays, remote, feeds, pass, handled, last>>
    /\ UNCHANGED <<backoffVars, restoreVars, snapshotVars, loopVars, ingestVars, entryVars>>

\* srv/handlers.go: HandleMarkRead, HandleMarkUnread, HandleStar, HandleUnstar
\* on the article with this key.
HandleMarkRead(key) ==
    /\ \E a \in articles : ArticleKey(a) = key
    /\ states' = SetArticleRead(states, key)
    /\ UNCHANGED <<refreshVars, purge>>
    /\ UNCHANGED <<backoffVars, restoreVars, snapshotVars, loopVars, ingestVars, entryVars>>

HandleMarkUnread(key) ==
    /\ \E a \in articles : ArticleKey(a) = key
    /\ states' = SetArticleUnread(states, key)
    /\ UNCHANGED <<refreshVars, purge>>
    /\ UNCHANGED <<backoffVars, restoreVars, snapshotVars, loopVars, ingestVars, entryVars>>

HandleStar(key) ==
    /\ \E a \in articles : ArticleKey(a) = key
    /\ states' = SetArticleStarred(states, key)
    /\ UNCHANGED <<refreshVars, purge>>
    /\ UNCHANGED <<backoffVars, restoreVars, snapshotVars, loopVars, ingestVars, entryVars>>

HandleUnstar(key) ==
    /\ \E a \in articles : ArticleKey(a) = key
    /\ states' = SetArticleUnstarred(states, key)
    /\ UNCHANGED <<refreshVars, purge>>
    /\ UNCHANGED <<backoffVars, restoreVars, snapshotVars, loopVars, ingestVars, entryVars>>

----------------------------------------------------------------------------
(* srv/handlers.go: the ingestion paths outside the refresh loop, and       *)
(* srv/feed.go: RefreshFeed. A feed's id stands for its URL too: the store  *)
(* holds one feed per URL and user.                                         *)

\* INSERT INTO feeds (user_id, category_id, url, title, site_url, description)
\* VALUES (...) RETURNING *
CreateFeed(tbl, arg) ==
    [id \in DOMAIN tbl \cup {arg.Url} |->
        IF id = arg.Url
        THEN [id |-> arg.Url, url |-> arg.Url, title |-> arg.Title,
              siteUrl |-> arg.SiteUrl, description |-> arg.Description,
              lastUpdated |-> Nil, lastError |-> Nil, etag |-> "",
              lastModified |-> "", errorCount |-> 0]
        ELSE tbl[id]]

\* UNIQUE(user_id, url)
Subscribed(tbl, url) == \E id \in DOMAIN tbl : tbl[id].url = url

\* Fetch(ctx, url): the unconditional GET.
Fetch(url, resp) == fetchWithCaching(url, "", "", resp)

\* The record of one HandleSubscribe or importSingleFeed call: the items it
\* fetched and the clock when it ran.
SubCall(path, url, outcome, items) ==
    [path |-> path, url |-> url, outcome |-> outcome, items |-> items, at |-> now]

NoSub == [path |-> "none", url |-> 0, outcome |-> "none", items |-> <<>>, at |-> 0]

\* HandleSubscribe with a request {url}, the remote side answering resp:
\* fetch, filter, CreateFeed (409 when the URL is subscribed), store the items.
HandleSubscribe(url, resp) ==
    /\ LET r == Fetch(url, resp)
       IN IF r.kind # "ok"
          THEN /\ sub' = SubCall("subscribe", url, "fetchfail", <<>>)
               /\ UNCHANGED <<feeds, articles>>
          ELSE IF Subscribed(feeds, url)
          THEN /\ sub' = SubCall("subscribe", url, "conflict", r.result.Items)
               /\ UNCHANGED <<feeds, articles>>
          ELSE /\ feeds' = CreateFeed(feeds, [Url |-> url, Title |-> r.result.Title,
                                              SiteUrl |-> r.result.SiteURL,
                                              Description |-> r.result.Description])
               /\ articles' = InsertArticles(articles, url,
                                             FilteredItems(r.result.Items, now))
               /\ sub' = SubCall("subscribe", url, "created", r.result.Items)
    /\ UNCHANGED <<now, purgeDays, remote, pass, handled, last, flt>>
    /\ UNCHANGED <<backoffVars, restoreVars, snapshotVars, purgeVars, loopVars, entryVars>>

\* importSingleFeed for one outline of the OPML file: skip a subscribed URL,
\* fetch, filter, CreateFeed, store the items.
importSingleFeed(url, resp) ==
    /\ IF Subscribed(feeds, url)
       THEN /\ sub' = SubCall("import", url, "exists", <<>>)
            /\ UNCHANGED <<feeds, articles>>
       ELSE LET r == Fetch(url, resp)
            IN IF r.kind # "ok"
               THEN /\ sub' = SubCall("import", url, "fetchfail", <<>>)
                    /\ UNCHANGED <<feeds, articles>>
               ELSE /\ feeds' = CreateFeed(feeds, [Url |-> url, Title |-> r.result.Title,
                                                   SiteUrl |-> r.result.SiteURL,
                                                   Description |-> r.result.Description])
                    /\ articles' = InsertArticles(articles, url,
                                                  FilteredItems(r.result.Items, now))
                    /\ sub' = SubCall("import", url, "created", r.result.Items)
    /\ UNCHANGED <<now, purgeDays, remote, pass, handled, last, flt>>
    /\ UNCHANGED <<backoffVars, restoreVars, snapshotVars, purgeVars, loopVars, entryVars>>

\* RefreshFeed(ctx, feedID): the row of feedID among those of
\* GetAllFeedsForRefresh(ctx, 1000), then refreshFeedInternal on it.
RefreshFeed(feedID) ==
    /\ \E rows \in GetAllFeedsForRefresh(feeds, RefreshBatchLimit) :
         \E i \in 1..Len(rows) :
            /\ rows[i].id = feedID
            /\ \E resp \in remote : refreshFeedInternal("RefreshFeed", rows[i], resp)
    /\ UNCHANGED <<now, purgeDays, remote, pass, handled>>
    /\ UNCHANGED <<backoffVars, restoreVars, snapshotVars, purgeVars, loopVars, ingestVars, entryVars>>

----------------------------------------------------------------------------
(* srv/feed.go: filterOldItems on its own, applied once to the item list    *)
(* flt.items with the cutoff flt.cutoff; flt.out is what it returned.       *)

FilterIdle == [items |-> <<>>, cutoff |-> 0, out |-> Nil]

CallFilterOldItems ==
    /\ IsNil(flt.out)
    /\ flt' = [flt EXCEPT !.out = Some(filterOldItems(flt.items, flt.cutoff))]
    /\ UNCHANGED sub
    /\ UNCHANGED <<refreshVars, backoffVars, restoreVars, snapshotVars, purgeVars, loopVars, entryVars>>

----------------------------------------------------------------------------
(* srv/feed.go: the periodic loops StartBackgroundRefresh, StartAutoPurge   *)
(* and StartPeriodicBackup, one goroutine each, sharing one context.        *)
(* loops[l] is "off" before the loop is started, "none" when no goroutine   *)
(* was started, "sleep" or "wait" during the startup delay, "select" once   *)
(* the goroutine is in its for-select loop, "exit" when it has returned.    *)
(* The unit of work a loop runs is the pass of goroutine "ticker", the      *)
(* sweep purge and the call bk.                                             *)

LoopNames == {"refresh", "purge", "backup"}

\* The loop's goroutine is not inside a unit of work.
Between(l) ==
    CASE l = "refresh" -> pass["ticker"].pc = "idle"
      [] l = "purge" -> purge.pc = "idle"
      [] l = "backup" -> bk.pc = "idle"

LoopStep(l, pc) ==
    /\ loops' = [loops EXCEPT ![l] = pc]
    /\ UNCHANGED cancelled
    /\ UNCHANGED <<refreshVars, backoffVars, restoreVars, snapshotVars, purgeVars, ingestVars, entryVars>>

\* StartBackgroundRefresh(ctx, interval): go func() { ticker; for { select } }
StartBackgroundRefresh ==
    /\ loops["refresh"] = "off"
    /\ LoopStep("refresh", "select")

\* A variant that starts the goroutine whatever PurgeDays is.
StartAutoPurge_Always ==
    /\ loops["purge"] = "off"
    /\ LoopStep("purge", "sleep")

\* StartAutoPurge(ctx): returns at once when PurgeDays <= 0, else starts the
\* goroutine, which first sleeps 30 seconds.
StartAutoPurge ==
    /\ loops["purge"] = "off"
    /\ LoopStep("purge", IF purgeDays <= 0 THEN "none" ELSE "sleep")

\* StartPeriodicBackup(ctx, backupDir, interval, keep): the goroutine first
\* waits for time.After(30s) or ctx.Done().
StartPeriodicBackup ==
    /\ loops["backup"] = "off"
    /\ LoopStep("backup", "wait")

\* Serve returns: the deferred cancel() runs. The loops were started before.
Cancel ==
    /\ ~cancelled
    /\ \A l \in LoopNames : loops[l] # "off"
    /\ cancelled' = TRUE
    /\ UNCHANGED loops
    /\ UNCHANGED <<refreshVars, backoffVars, restoreVars, snapshotVars, purgeVars, ingestVars, entryVars>>

\* A variant of the select that takes ctx.Done() wherever the goroutine is.
LoopExit_MidRun(l) ==
    /\ loops[l] \in {"select", "wait"}
    /\ cancelled
    /\ LoopStep(l, "exit")

\* "case <-ctx.Done(): return" of the loop's select (for the backup loop also
\* of the select of its startup delay).
LoopExit(l) ==
    /\ loops[l] \in {"select", "wait"}
    /\ Between(l)
    /\ cancelled
    /\ LoopStep(l, "exit")

\* "case <-ticker.C: s.refreshAllFeeds(ctx)": the pass begins; with the
\* context done its query fails and refreshAllFeeds returns.
RefreshLoopTick ==
    /\ loops["refresh"] = "select"
    /\ pass["ticker"].pc = "idle"
    /\ IF cancelled THEN UNCHANGED vars ELSE StartPass("ticker")

\* One iteration of a pass whose context is done: the feed that is not
\* skipped has its request fail, its UpdateFeedMeta fails as well, and the
\* loop goes on.
RefreshNextCancelled(p) ==
    /\ pass[p].pc = "run"
    /\ pass[p].idx <= Len(pass[p].loaded)
    /\ LET feed == pass[p].loaded[pass[p].idx]
       IN /\ last' = IF shouldSkipFeed(feed, now)
                     THEN Call(p, feed, "skip", FALSE, Nil)
                     ELSE Call(p, feed, "error", TRUE, Some("fetch: context canceled"))
          /\ handled' = [handled EXCEPT ![p][feed.id] = @ + 1]
    /\ pass' = [pass EXCEPT ![p].idx = @ + 1]
    /\ UNCHANGED <<now, purgeDays, remote, feeds, articles>>
    /\ UNCHANGED <<backoffVars, restoreVars, snapshotVars, purgeVars, loopVars, ingestVars, entryVars>>

\* One iteration of the pass the loop runs.
RefreshLoopNext ==
    /\ loops["refresh"] = "select"
    /\ IF cancelled THEN RefreshNextCancelled("ticker") ELSE RefreshNext("ticker")

\* time.Sleep(30 * time.Second) returns and the first purgeOldArticles begins.
PurgeLoopWake ==
    /\ loops["purge"] = "sleep"
    /\ purge.pc = "idle"
    /\ purge' = [PurgeIdle EXCEPT !.pc = "count", !.cutoff = now - 24 * purgeDays]
    /\ loops' = [loops EXCEPT !["purge"] = "select"]
    /\ UNCHANGED <<cancelled, states>>
    /\ UNCHANGED <<refreshVars, backoffVars, restoreVars, snapshotVars, ingestVars, entryVars>>

\* "case <-ticker.C: s.purgeOldArticles()"
PurgeLoopTick ==
    /\ loops["purge"] = "select"
    /\ PurgeStart

\* "case <-time.After(30 * time.Second):" then the first runBackup begins.
BackupLoopFirst ==
    /\ loops["backup"] = "wait"
    /\ bk.pc = "idle"
    /\ bk' = [BackupIdle EXCEPT !.pc = "mkdir", !.rows0 = store.rows,
                                !.seen = {store.rows}, !.dir0 = dir]
    /\ loops' = [loops EXCEPT !["backup"] = "select"]
    /\ UNCHANGED <<cancelled, wall, store, dir, made, prn, probe>>
    /\ UNCHANGED <<refreshVars, backoffVars, restoreVars, purgeVars, ingestVars, entryVars>>

\* "case <-ticker.C: s.runBackup(backupDir, keep)"
BackupLoopTick ==
    /\ loops["backup"] = "select"
    /\ BackupCall

\* runBackup: Backup returned an error, which is logged; nothing is pruned.
RunBackupFailed ==
    /\ bk.pc = "done"
    /\ ~IsNil(bk.err)
    /\ bk' = BackupIdle
    /\ UNCHANGED <<wall, store, dir, made, prn, probe>>
    /\ UNCHANGED <<refreshVars, backoffVars, restoreVars, purgeVars, loopVars, ingestVars, entryVars>>

----------------------------------------------------------------------------
(* cmd/srv/main.go, srv/handlers.go: the entry points. cmd is the restore   *)
(* command: the warning printed, the answer read from the terminal, what    *)
(* the command returned. req is the request HandleRefresh served: whether   *)
(* its context is done, and the context the pass it began was given.        *)

NoCommand == [pc |-> "none", warned |-> FALSE, answer |-> "", err |-> Nil]

NoRequest == [pc |-> "none", done |-> FALSE, ctx |-> "", early |-> FALSE]

\* The context of the request is done: the handler has returned, or the
\* client has gone away.
RequestEnds ==
    /\ req.pc # "none"
    /\ ~req.done
    /\ req' = [req EXCEPT !.done = TRUE]
    /\ UNCHANGED <<cmd, env>>
    /\ UNCHANGED <<refreshVars, backoffVars, restoreVars, snapshotVars, purgeVars, loopVars, ingestVars>>

\* A variant that hands the pass the request's context.
HandleRefresh_RequestContext ==
    /\ req.pc = "none"
    /\ req' = [pc |-> "spawned", done |-> FALSE, ctx |-> "request", early |-> FALSE]
    /\ UNCHANGED <<cmd, env>>
    /\ UNCHANGED <<refreshVars, backoffVars, restoreVars, snapshotVars, purgeVars, loopVars, ingestVars>>

\* HandleRefresh: "go s.refreshAllFeeds(context.Background())", then the
\* response {"status": "refreshing"}; the handler waits for nothing.
HandleRefresh ==
    /\ req.pc = "none"
    /\ req' = [pc |-> "spawned", done |-> FALSE, ctx |-> "background", early |-> FALSE]
    /\ UNCHANGED <<cmd, env>>
    /\ UNCHANGED <<refreshVars, backoffVars, restoreVars, snapshotVars, purgeVars, loopVars, ingestVars>>

\* The context the manual pass runs on is done.
ManualCtxDone == req.ctx = "request" /\ req.done

\* The goroutine HandleRefresh started runs refreshAllFeeds: the query on its
\* context; on a context that is done the query fails and the pass is over.
\* req.early records that the request had ended before.
ManualStart ==
    /\ req.pc = "spawned"
    /\ pass["manual"].pc = "idle"
    /\ IF ManualCtxDone
       THEN /\ req' = [req EXCEPT !.pc = "failed", !.early = req.done]
            /\ UNCHANGED <<pass, handled>>
       ELSE /\ req' = [req EXCEPT !.pc = "started", !.early = req.done]
            /\ \E rows \in GetAllFeedsForRefresh(feeds, RefreshBatchLimit) :
                  pass' = [pass EXCEPT !["manual"] = [pc |-> "run", loaded |-> rows, idx |-> 1]]
            /\ handled' = [handled EXCEPT !["manual"] = [f \in DOMAIN feeds |-> 0]]
    /\ UNCHANGED <<now, purgeDays, remote, feeds, articles, last>>
    /\ UNCHANGED <<cmd, env>>
    /\ UNCHANGED <<backoffVars, restoreVars, snapshotVars, purgeVars, loopVars, ingestVars>>

\* One iteration of the manual pass, on its context.
ManualNext ==
    /\ req.pc = "started"
    /\ IF ManualCtxDone THEN RefreshNextCancelled("manual") ELSE RefreshNext("manual")

\* What fmt.Scanln may leave in answer: nothing (an empty line, or no input),
\* or the first word typed.
Answers == {"", "y", "Y", "n", "N", "yes"}

\* A variant that takes every answer but "n" and "N" for consent.
RunRestore_DefaultYes(flagRestore, answer) ==
    /\ cmd.pc = "none"
    /\ rst.pc = "idle"
    /\ IF answer = "n" \/ answer = "N"
       THEN /\ cmd' = [pc |-> "returned", warned |-> TRUE, answer |-> answer, err |-> Nil]
            /\ UNCHANGED <<fs, fs0, rst>>
       ELSE /\ cmd' = [pc |-> "restoring", warned |-> TRUE, answer |-> answer, err |-> Nil]
            /\ rst' = [RestoreIdle EXCEPT !.pc = "stat", !.backupPath = flagRestore]
            /\ fs0' = fs
            /\ UNCHANGED fs
    /\ UNCHANGED <<req, env>>
    /\ UNCHANGED <<refreshVars, backoffVars, snapshotVars, purgeVars, loopVars, ingestVars>>

\* run with -restore flagRestore: the warning and the question are printed,
\* the answer is read; on any answer but "y" and "Y" the command prints
\* "Restore cancelled." and returns nil, else db.Restore is called.
RunRestore(flagRestore, answer) ==
    /\ cmd.pc = "none"
    /\ rst.pc = "idle"
    /\ IF answer # "y" /\ answer # "Y"
       THEN /\ cmd' = [pc |-> "returned", warned |-> TRUE, answer |-> answer, err |-> Nil]
            /\ UNCHANGED <<fs, fs0, rst>>
       ELSE /\ cmd' = [pc |-> "restoring", warned |-> TRUE, answer |-> answer, err |-> Nil]
            /\ rst' = [RestoreIdle EXCEPT !.pc = "stat", !.backupPath = flagRestore]
            /\ fs0' = fs
            /\ UNCHANGED fs
    /\ UNCHANGED <<req, env>>
    /\ UNCHANGED <<refreshVars, backoffVars, snapshotVars, purgeVars, loopVars, ingestVars>>

\* db.Restore has returned: the command returns its error, wrapped, or nil.
RunRestoreReturn ==
    /\ cmd.pc = "restoring"
    /\ rst.pc = "done"
    /\ cmd' = [cmd EXCEPT !.pc = "returned",
                          !.err = IF IsNil(rst.err) THEN Nil
                                  ELSE Some(<<"restore failed", Val(rst.err)>>)]
    /\ UNCHANGED <<req, env>>
    /\ UNCHANGED <<refreshVars, backoffVars, restoreVars, snapshotVars, purgeVars, loopVars, ingestVars>>

----------------------------------------------------------------------------
(* Initial states *)

\* A feed row as CreateFeed leaves it: never refreshed, no validators, no errors.
NewFeed(id) ==
    [id |-> id, url |-> id, title |-> "T0", siteUrl |-> "S0", description |-> "D0",
     lastUpdated |-> Nil, lastError |-> Nil, etag |-> "", lastModified |-> "",
     errorCount |-> 0]

\* The refresh engine at service start: the goroutines that may each run a
\* pass, the subscribed feeds, the remote side's answers, the purge threshold.
RefreshInit(procs, ids, resps, days) ==
    /\ now = 0
    /\ purgeDays \in days
    /\ remote = resps
    /\ feeds = [id \in ids |-> NewFeed(id)]
    /\ articles = {}
    /\ pass = [p \in procs |-> Idle]
    /\ handled = [p \in procs |-> [f \in ids |-> 0]]
    /\ last = NoCall

\* A transport failure, a 304, an unparseable body, a full document.
BasicResponses ==
    { r \in Responses : r.net = "fail" \/ r.status = 304
                          \/ (r.status = 200 /\ (r.parses => r.title # "")) }

BackoffIdle == [feed |-> NewFeed(1), at |-> 0, skip |-> Nil, hours |-> Nil]

\* No backup directory, no snapshot taken, no call made.
SnapshotsIdle ==
    /\ wall = 10
    /\ store = [rows |-> 0, pending |-> 0]
    /\ dir = NoDir
    /\ bk = BackupIdle
    /\ made = [n \in {} |-> <<>>]
    /\ prn = NoPrune
    /\ probe = NoProbe

\* No article has a state row, no sweep runs.
PurgeOff ==
    /\ states = [k \in {} |-> NewState]
    /\ purge = PurgeIdle

\* No loop started, the context live.
LoopsOff ==
    /\ cancelled = FALSE
    /\ loops = [l \in LoopNames |-> "off"]

\* No subscribe or import call made, no filter call pending.
IngestIdle ==
    /\ sub = NoSub
    /\ flt = FilterIdle

\* No restore command run, no refresh requested, no backup directory
\* configured, local time UTC.
EntryIdle ==
    /\ cmd = NoCommand
    /\ req = NoRequest
    /\ env = [GORSS_BACKUP_DIR |-> "", TZ |-> 0]

OthersIdle ==
    /\ bo = BackoffIdle
    /\ fs = [path \in {} |-> NoFile]
    /\ fs0 = fs
    /\ rst = RestoreIdle
    /\ SnapshotsIdle
    /\ PurgeOff
    /\ LoopsOff
    /\ IngestIdle
    /\ EntryIdle

\* One refresh goroutine at a time, two feeds.
Init ==
    /\ RefreshInit({"ticker"}, {1, 2}, BasicResponses, {1})
    /\ OthersIdle

\* The ticker's pass and a manually triggered pass may overlap, one feed.
InitOverlap ==
    /\ RefreshInit({"ticker", "manual"}, {1},
                   { r \in BasicResponses : r.net = "ok" => r.status = 304 \/ r.parses },
                   {1})
    /\ OthersIdle

\* The policy applied to every error count and attempt time within the bounds.
InitBackoff ==
    /\ RefreshInit({"ticker"}, {1}, {}, {1})
    /\ \E n \in 0..BackoffMaxErrors, lu \in {Nil} \cup {Some(t) : t \in 0..2} :
          bo = [feed |-> [NewFeed(1) EXCEPT !.errorCount = n, !.lastUpdated = lu],
                at |-> 0, skip |-> Nil, hours |-> Nil]
    /\ fs = [path \in {} |-> NoFile]
    /\ fs0 = fs
    /\ rst = RestoreIdle
    /\ SnapshotsIdle
    /\ PurgeOff
    /\ LoopsOff
    /\ IngestIdle
    /\ EntryIdle

NextBackoff ==
    \/ CallShouldSkipFeed
    \/ BackoffLater

SpecBackoff == InitBackoff /\ [][NextBackoff]_vars

\* The server stopped: a snapshot path that is absent, a directory, empty,
\* not a database or a snapshot; a live database with or without side files.
InitRestore ==
    /\ RefreshInit({"ticker"}, {1}, {}, {1})
    /\ bo = BackoffIdle
    /\ \E snap \in {NoFile, Dir, File(<<>>), File(<<"junk">>),
                     File(<<"SQLite", "rows5">>)},
          db \in {NoFile, File(<<"SQLite", "live">>)},
          wal \in {NoFile, File(<<"wal">>)},
          shm \in {NoFile, File(<<"shm">>)} :
          fs = [path \in Paths |->
                  CASE path = "snap" -> snap
                    [] path = "db" -> db
                    [] path = "db-wal" -> wal
                    [] path = "db-shm" -> shm]
    /\ fs0 = fs
    /\ rst = RestoreIdle
    /\ SnapshotsIdle
    /\ PurgeOff
    /\ LoopsOff
    /\ IngestIdle
    /\ EntryIdle

NextRestore ==
    \/ \E backupPath \in Paths : RestoreCall(backupPath)
    \/ RestoreStat
    \/ RestoreValidate
    \/ RestoreRemove
    \/ RestoreRead
    \/ RestoreWrite
    \/ RestoreReturn

SpecRestore == InitRestore /\ [][NextRestore]_vars

\* A backup directory of any make-up: missing, or holding snapshots of the
\* seconds 8, 9 and 10 (a database, an empty file or another file), files
\* named gorss-z.db and gorss-.db, a subdirectory named like a snapshot and a
\* file other.txt; the snapshot of second 8 may be locked.
InitPrune ==
    /\ RefreshInit({"ticker"}, {1}, {}, {1})
    /\ bo = BackoffIdle
    /\ fs = [path \in {} |-> NoFile]
    /\ fs0 = fs
    /\ rst = RestoreIdle
    /\ PurgeOff
    /\ LoopsOff
    /\ IngestIdle
    /\ EntryIdle
    /\ wall = 10
    /\ store = [rows |-> 0, pending |-> 0]
    /\ bk = BackupIdle
    /\ made = [n \in {} |-> <<>>]
    /\ prn = NoPrune
    /\ probe = NoProbe
    /\ \/ dir = NoDir
       \/ \E snaps \in { f \in [ {SnapshotName(8), SnapshotName(9), SnapshotName(10)} ->
                                   {NoFile, File(Image(2)), File(<<>>), File(<<"x">>)} ] :
                             f[SnapshotName(8)] \in {NoFile, File(Image(2))} },
              others \in SUBSET { <<"gorss-", "z", ".db">>, <<"gorss-", ".db">>,
                                  <<"other", ".txt">> },
              subdir \in SUBSET { SnapshotName(7) },
              locked \in SUBSET { SnapshotName(8) } :
            LET present == { n \in DOMAIN snaps : snaps[n] # NoFile }
            IN /\ locked \subseteq present
               /\ dir = [exists |-> TRUE,
                         files |-> [n \in present \cup others \cup subdir |->
                                      IF n \in present THEN snaps[n]
                                      ELSE IF n \in subdir THEN Dir
                                      ELSE File(<<"x">>)],
                         locked |-> locked]

NextPrune ==
    \/ \E keep \in (0 - 1)..2 : CallPruneBackups(keep)
    \/ CallLatestBackupAge

SpecPrune == InitPrune /\ [][NextPrune]_vars

\* A live store with one committed transaction; the backup directory missing,
\* or holding any of: the snapshot of second 9, an empty file under the name
\* of second 10, which may be locked.
InitBackup ==
    /\ RefreshInit({"ticker"}, {1}, {}, {1})
    /\ bo = BackoffIdle
    /\ fs = [path \in {} |-> NoFile]
    /\ fs0 = fs
    /\ rst = RestoreIdle
    /\ PurgeOff
    /\ LoopsOff
    /\ IngestIdle
    /\ EntryIdle
    /\ wall = 10
    /\ store = [rows |-> 2, pending |-> 0]
    /\ bk = BackupIdle
    /\ made = [n \in {} |-> <<>>]
    /\ prn = NoPrune
    /\ probe = NoProbe
    /\ \/ dir = NoDir
       \/ \E old \in SUBSET { SnapshotName(9) },
              empty \in SUBSET { SnapshotName(10) },
              locked \in SUBSET { SnapshotName(10) } :
            /\ locked \subseteq empty
            /\ dir = [exists |-> TRUE,
                      files |-> [n \in old \cup empty |->
                                   IF n \in old THEN File(Image(2)) ELSE File(<<>>)],
                      locked |-> locked]

NextBackup ==
    \/ BackupCall
    \/ BackupMkdir
    \/ BackupVacuum
    \/ BackupCopy
    \/ BackupFail
    \/ BackupReturn
    \/ \E keep \in {0, 2} : RunBackupPrune(keep)
    \/ WriteBegin
    \/ WriteCommit
    \/ TickSecond

SpecBackup == InitBackup /\ [][NextBackup]_vars

\* One feed with three articles: one older than a day, one that turns a day
\* old while the clock runs, one with no published date; none with a state
\* row yet.
InitPurge ==
    /\ now = 0
    /\ purgeDays = 1
    /\ remote = {}
    /\ feeds = [id \in {1} |-> NewFeed(id)]
    /\ articles = { [feedId |-> 1, guid |-> "g1", url |-> "u1", title |-> "a1",
                     publishedAt |-> Some(0 - 30)],
                    [feedId |-> 1, guid |-> "g2", url |-> "u2", title |-> "a2",
                     publishedAt |-> Some(0 - 23)],
                    [feedId |-> 1, guid |-> "g3", url |-> "u3", title |-> "a3",
                     publishedAt |-> Nil] }
    /\ pass = [p \in {"ticker"} |-> Idle]
    /\ handled = [p \in {"ticker"} |-> [f \in {1} |-> 0]]
    /\ last = NoCall
    /\ bo = BackoffIdle
    /\ fs = [path \in {} |-> NoFile]
    /\ fs0 = fs
    /\ rst = RestoreIdle
    /\ SnapshotsIdle
    /\ PurgeOff
    /\ LoopsOff
    /\ IngestIdle
    /\ EntryIdle

NextPurge ==
    \/ PurgeStart
    \/ PurgeCount
    \/ PurgeDelete
    \/ \E a \in articles : HandleMarkRead(ArticleKey(a))
    \/ \E a \in articles : HandleMarkUnread(ArticleKey(a))
    \/ \E a \in articles : HandleStar(ArticleKey(a))
    \/ \E a \in articles : HandleUnstar(ArticleKey(a))
    \/ Tick

SpecPurge == InitPurge /\ [][NextPurge]_vars

\* The sweep running beside the refresh pass: one feed with an article older
\* than a day and one that turns a day old while the clock runs; the feed's
\* document lists the first article again, published now.
InitSweep ==
    /\ now = 0
    /\ purgeDays = 1
    /\ remote = { r \in Responses : r.status = 200 /\ r.parses /\ r.title # "" }
    /\ feeds = [id \in {1} |-> NewFeed(id)]
    /\ articles = { [feedId |-> 1, guid |-> "g1", url |-> "u1", title |-> "a1",
                     publishedAt |-> Some(0 - 30)],
                    [feedId |-> 1, guid |-> "g2", url |-> "u2", title |-> "a2",
                     publishedAt |-> Some(0 - 23)] }
    /\ pass = [p \in {"ticker"} |-> Idle]
    /\ handled = [p \in {"ticker"} |-> [f \in {1} |-> 0]]
    /\ last = NoCall
    /\ bo = BackoffIdle
    /\ fs = [path \in {} |-> NoFile]
    /\ fs0 = fs
    /\ rst = RestoreIdle
    /\ SnapshotsIdle
    /\ PurgeOff
    /\ LoopsOff
    /\ IngestIdle
    /\ EntryIdle

NextSweep ==
    \/ PurgeStart
    \/ PurgeCount
    \/ PurgeDelete
    \/ \E a \in articles : HandleMarkRead(ArticleKey(a))
    \/ \E a \in articles : HandleMarkUnread(ArticleKey(a))
    \/ \E a \in articles : HandleStar(ArticleKey(a))
    \/ \E a \in articles : HandleUnstar(ArticleKey(a))
    \/ StartPass("ticker")
    \/ RefreshNext("ticker")
    \/ EndPass("ticker")
    \/ Tick

SpecSweep == InitSweep /\ [][NextSweep]_vars

\* One feed whose server may fail, or answer with a full document, with a
\* document whose title, link and description are empty, or with status 500
\* and a body that parses.
DocResponses ==
    { r \in Responses : r.net = "fail" \/ (r.status # 304 /\ r.parses) }

InitDocs ==
    /\ RefreshInit({"ticker"}, {1}, DocResponses, {1})
    /\ OthersIdle

NextDocs ==
    \/ StartPass("ticker")
    \/ RefreshNext("ticker")
    \/ EndPass("ticker")
    \/ \E id \in DOMAIN feeds, title \in {"", "Tu"} : HandleUpdateFeed(id, title)
    \/ \E id \in DOMAIN feeds : RefreshFeed(id)
    \/ Tick

SpecDocs == InitDocs /\ [][NextDocs]_vars

\* The documents served at the URLs a user subscribes to: one with an item
\* published now, an item without guid published a day ago to the hour, and
\* an undated item; one that lists the first item again, retitled and an
\* hour short of a day old, and an item two days old whose guid is the link
\* of the other document's second item.
IngestResponses ==
    { Response("ok", 200, TRUE, "T1", "S1", "D1",
               << Item("g1", "u1", "a1", Some(0)),
                  Item("", "u2", "a2", Some(0 - 24)),
                  Item("g3", "u3", "a3", Nil) >>, "E1", "L1"),
      Response("ok", 200, TRUE, "T2", "S2", "D2",
               << Item("g1", "u1", "a1b", Some(0 - 23)),
                  Item("u2", "u9", "a2b", Some(0 - 48)) >>, "E2", "L2") }

\* The URLs a user may subscribe to or import.
FeedUrls == {1, 2}

\* No feed subscribed yet; the purge threshold off or one day; the clock at
\* the instant the first document's second item turns a day old, or an hour
\* later.
InitIngest ==
    /\ now \in {0, 1}
    /\ purgeDays \in {0, 1}
    /\ remote = IngestResponses
    /\ feeds = [id \in {} |-> NewFeed(id)]
    /\ articles = {}
    /\ pass = [p \in {"ticker"} |-> Idle]
    /\ handled = [p \in {"ticker"} |-> [f \in {} |-> 0]]
    /\ last = NoCall
    /\ OthersIdle

NextIngest ==
    \/ \E url \in FeedUrls, resp \in remote : HandleSubscribe(url, resp)
    \/ \E url \in FeedUrls, resp \in remote : importSingleFeed(url, resp)
    \/ StartPass("ticker")
    \/ RefreshNext("ticker")
    \/ EndPass("ticker")

SpecIngest == InitIngest /\ [][NextIngest]_vars

\* filterOldItems about to be called on any list of up to MaxItems items,
\* each undated or published an hour before, at, or an hour after the
\* cutoff; an item's guid is its place in the list.
InitFilter ==
    /\ RefreshInit({"ticker"}, {1}, {}, {1})
    /\ bo = BackoffIdle
    /\ fs = [path \in {} |-> NoFile]
    /\ fs0 = fs
    /\ rst = RestoreIdle
    /\ SnapshotsIdle
    /\ PurgeOff
    /\ LoopsOff
    /\ EntryIdle
    /\ sub = NoSub
    /\ \E n \in 0..MaxItems, cutoff \in {0, 5} :
          \E pubs \in [1..n -> {Nil, Some(cutoff - 1), Some(cutoff), Some(cutoff + 1)}] :
             flt = [items |-> [i \in 1..n |->
                                 [GUID |-> Digits[i + 1], URL |-> "u", Title |-> "t",
                                  PublishedAt |-> pubs[i]]],
                    cutoff |-> cutoff, out |-> Nil]

NextFilter ==
    CallFilterOldItems

SpecFilter == InitFilter /\ [][NextFilter]_vars

\* The service with its three loops about to be started: any sign of
\* PurgeDays; one feed whose server answers 304; one article, read and older
\* than a day; a live store of two rows and no backup directory yet.
InitLoops ==
    /\ now = 0
    /\ purgeDays \in {0 - 1, 0, 1}
    /\ remote = { r \in Responses : r.status = 304 }
    /\ feeds = [id \in {1} |-> NewFeed(id)]
    /\ articles = { [feedId |-> 1, guid |-> "g1", url |-> "u1", title |-> "a1",
                     publishedAt |-> Some(0 - 30)] }
    /\ pass = [p \in {"ticker"} |-> Idle]
    /\ handled = [p \in {"ticker"} |-> [f \in {1} |-> 0]]
    /\ last = NoCall
    /\ bo = BackoffIdle
    /\ fs = [path \in {} |-> NoFile]
    /\ fs0 = fs
    /\ rst = RestoreIdle
    /\ wall = 10
    /\ store = [rows |-> 2, pending |-> 0]
    /\ dir = NoDir
    /\ bk = BackupIdle
    /\ made = [n \in {} |-> <<>>]
    /\ prn = NoPrune
    /\ probe = NoProbe
    /\ states = [k \in { <<1, "g1">> } |-> [isRead |-> TRUE, isStarred |-> FALSE]]
    /\ purge = PurgeIdle
    /\ LoopsOff
    /\ IngestIdle
    /\ EntryIdle

NextLoops ==
    \/ StartBackgroundRefresh
    \/ StartAutoPurge
    \/ StartPeriodicBackup
    \/ Cancel
    \/ \E l \in LoopNames : LoopExit(l)
    \/ RefreshLoopTick
    \/ RefreshLoopNext
    \/ EndPass("ticker")
    \/ PurgeLoopWake
    \/ PurgeLoopTick
    \/ PurgeCount
    \/ PurgeDelete
    \/ BackupLoopFirst
    \/ BackupLoopTick
    \/ BackupMkdir
    \/ BackupVacuum
    \/ BackupCopy
    \/ BackupFail
    \/ RunBackupPrune(LoopsKeep)
    \/ RunBackupFailed

\* Every goroutine that can take a step of the unit of work it is in takes
\* it in the end; a select that finds ctx.Done() ready again and again takes
\* it in the end (a select picks among its ready cases at random).
LoopsFairness ==
    /\ WF_vars(StartBackgroundRefresh)
    /\ WF_vars(StartAutoPurge)
    /\ WF_vars(StartPeriodicBackup)
    /\ WF_vars(RefreshLoopNext)
    /\ WF_vars(EndPass("ticker"))
    /\ WF_vars(PurgeLoopWake)
    /\ WF_vars(PurgeCount)
    /\ WF_vars(PurgeDelete)
    /\ WF_vars(BackupMkdir)
    /\ WF_vars(BackupVacuum)
    /\ WF_vars(BackupCopy)
    /\ WF_vars(BackupFail)
    /\ WF_vars(RunBackupPrune(LoopsKeep))
    /\ WF_vars(RunBackupFailed)
    /\ \A l \in LoopNames : SF_vars(LoopExit(l))

SpecLoops == InitLoops /\ [][NextLoops]_vars /\ LoopsFairness

Next ==
    \/ \E p \in DOMAIN pass : StartPass(p)
    \/ \E p \in DOMAIN pass : RefreshNext(p)
    \/ \E p \in DOMAIN pass : EndPass(p)
    \/ \E id \in DOMAIN feeds, title \in {"", "Tu"} : HandleUpdateFeed(id, title)
    \/ Tick

Spec == Init /\ [][Next]_vars

SpecOverlap == InitOverlap /\ [][Next]_vars

----------------------------------------------------------------------------
(* The refresh engine: properties *)

\* Goroutine p runs one loop iteration in this step.
Iterates(p) ==
    /\ pass[p].pc = "run"
    /\ pass'[p].pc = "run"
    /\ pass'[p].idx = pass[p].idx + 1

\* The row the iteration of p works on, as p loaded it.
Loaded(p) == pass[p].loaded[pass[p].idx]

\* The stored rows other than id are as they were.
OthersKept(id) == \A g \in DOMAIN feeds : g # id => feeds'[g] = feeds[g]

\* C1: the stored error count is set to 0 by every attempt that ends in
\* success or NotModified, is raised by exactly 1 by every attempt that ends
\* in FetchError when the attempt runs on the feed's current stored record,
\* is changed by no other step, and is never negative.
C1_ErrorCount ==
    [][ /\ \A p \in DOMAIN pass :
             Iterates(p) =>
               LET id == Loaded(p).id
               IN /\ last'.outcome \in {"ok", "notmod"} => feeds'[id].errorCount = 0
                  /\ (last'.outcome = "error" /\ Loaded(p) = feeds[id])
                        => feeds'[id].errorCount = feeds[id].errorCount + 1
                  /\ last'.outcome = "skip"
                        => feeds'[id].errorCount = feeds[id].errorCount
                  /\ \A g \in DOMAIN feeds :
                        g # id => feeds'[g].errorCount = feeds[g].errorCount
        /\ (\A p \in DOMAIN pass : ~Iterates(p))
              => \A g \in DOMAIN feeds : feeds'[g].errorCount = feeds[g].errorCount
        /\ \A g \in DOMAIN feeds : feeds'[g].errorCount >= 0
      ]_vars

\* C1 witness: two failed attempts in a row have raised a feed's count to 2,
\* after an attempt that reset it.
C1_Witness ==
    /\ last.outcome = "error"
    /\ feeds[last.feed].errorCount = 2
    /\ \E a \in articles : a.feedId = last.feed

\* C2: a FetchError never aborts a pass: the loop goes on to the next loaded
\* feed, it ends only after the last one, every loaded feed has then been
\* processed exactly once (fetched unless the backoff policy skipped it), and
\* the failing iteration changes no stored field of any other feed.
C2_PassNeverAborts ==
    [][ \A p \in DOMAIN pass :
          /\ (Iterates(p) /\ last'.outcome = "error")
                => /\ pass'[p].loaded = pass[p].loaded
                   /\ OthersKept(Loaded(p).id)
          /\ Iterates(p) => (last'.fetched <=> ~shouldSkipFeed(Loaded(p), now))
          /\ (pass[p].pc = "run" /\ pass'[p].pc = "idle")
                => /\ pass[p].idx = Len(pass[p].loaded) + 1
                   /\ \A i \in 1..Len(pass[p].loaded) :
                         handled[p][pass[p].loaded[i].id] = 1
                   /\ \A f \in DOMAIN feeds :
                         (\E i \in 1..Len(pass[p].loaded) : pass[p].loaded[i].id = f)
                         \/ handled[p][f] = 0
      ]_vars

\* C2 witness: a pass is over in which the first feed failed and the second
\* was then fetched with success.
C2_Witness ==
    \E p \in DOMAIN pass :
      /\ pass[p].pc = "run"
      /\ Len(pass[p].loaded) = 2
      /\ pass[p].idx = 3
      /\ pass[p].loaded[1].errorCount = 0
      /\ feeds[pass[p].loaded[1].id].errorCount = 1
      /\ last.outcome = "ok"
      /\ last.feed = pass[p].loaded[2].id

\* C5 as claimed: a refresh that ends in NotModified leaves the feed's stored
\* validators, title, site URL, description and the articles exactly as they
\* were before it, sets the attempt timestamp to now and the error count to
\* 0, and returns no error.
C5_NotModifiedKeepsFeed ==
    [][ \A p \in DOMAIN pass :
          (Iterates(p) /\ last'.outcome = "notmod") =>
             LET id == Loaded(p).id
             IN /\ feeds'[id].etag = feeds[id].etag
                /\ feeds'[id].lastModified = feeds[id].lastModified
                /\ feeds'[id].title = feeds[id].title
                /\ feeds'[id].siteUrl = feeds[id].siteUrl
                /\ feeds'[id].description = feeds[id].description
                /\ articles' = articles
                /\ feeds'[id].lastUpdated = Some(now)
                /\ feeds'[id].errorCount = 0
                /\ IsNil(last'.err)
      ]_vars

\* C6 as claimed: a refresh that ends in FetchError stores the error's
\* message as the last error, makes the error count its previous value plus
\* one, sets the attempt timestamp to now and leaves the validators, title,
\* site URL, description and the articles unchanged.
C6_FetchErrorRecorded ==
    [][ \A p \in DOMAIN pass :
          (Iterates(p) /\ last'.outcome = "error") =>
             LET id == Loaded(p).id
             IN /\ feeds'[id].lastError = last'.err
                /\ ~IsNil(last'.err)
                /\ feeds'[id].errorCount = feeds[id].errorCount + 1
                /\ feeds'[id].lastUpdated = Some(now)
                /\ feeds'[id].etag = feeds[id].etag
                /\ feeds'[id].lastModified = feeds[id].lastModified
                /\ feeds'[id].title = feeds[id].title
                /\ feeds'[id].siteUrl = feeds[id].siteUrl
                /\ feeds'[id].description = feeds[id].description
                /\ articles' = articles
      ]_vars

\* C7: when the backoff policy says skip, the refresh step issues no fetch
\* and leaves every stored row and every article as they were, the attempt
\* timestamp included.
C7_SkipTouchesNothing ==
    [][ \A p \in DOMAIN pass :
          (Iterates(p) /\ shouldSkipFeed(Loaded(p), now)) =>
             /\ last'.outcome = "skip"
             /\ ~last'.fetched
             /\ feeds' = feeds
             /\ articles' = articles
      ]_vars

\* C7 witness: a feed that failed an hour or more ago has just been skipped,
\* and its attempt timestamp is still that of the failure.
C7_Witness ==
    /\ last.outcome = "skip"
    /\ feeds[last.feed].errorCount = 1
    /\ ~IsNil(feeds[last.feed].lastError)
    /\ Val(feeds[last.feed].lastUpdated) < now

----------------------------------------------------------------------------
(* The backoff policy: properties *)

\* The backoff window of the policy, in hours, for n consecutive errors.
WindowHours(n) ==
    CASE n = 1 -> 2
      [] n = 2 -> 4
      [] n = 3 -> 8
      [] n = 4 -> 16
      [] OTHER -> 24

\* C3: shouldSkipFeed returns true exactly when the error count is not zero,
\* a prior attempt is recorded and now is strictly before the attempt plus
\* the backoff window: never with error count 0, and not once the full
\* window has elapsed.
C3_SkipIff ==
    ~IsNil(bo.skip) =>
       LET n == bo.feed.errorCount
           lu == bo.feed.lastUpdated
       IN /\ Val(bo.skip) <=> (n # 0 /\ ~IsNil(lu) /\ bo.at < Val(lu) + WindowHours(n))
          /\ n = 0 => ~Val(bo.skip)
          /\ (~IsNil(lu) /\ bo.at = Val(lu) + WindowHours(n)) => ~Val(bo.skip)

\* C3 witness: with 3 errors the call made exactly 8 hours after the attempt
\* does not skip.
C3_Witness ==
    /\ bo.feed.errorCount = 3
    /\ bo.feed.lastUpdated = Some(1)
    /\ bo.at = 9
    /\ bo.skip = Some(FALSE)

\* C4: for every error count n >= 1 the window is min(2^min(n,5), 24) hours:
\* 2, 4, 8, 16 for n = 1..4 and 24, never 32, from 5 on; it never decreases
\* as n grows.
C4_Window ==
    ~IsNil(bo.hours) =>
       LET n == bo.feed.errorCount
           h == Val(bo.hours)
       IN /\ n >= 1
          /\ h = WindowHours(n)
          /\ h = Min(Pow2(Min(n, 5)), 24)
          /\ n >= 5 => h = 24
          /\ \A m \in 1..n : backoffHours(m) <= h

\* C4 witness: a window computed for 6 errors, 24 hours.
C4_Witness ==
    /\ bo.feed.errorCount = 6
    /\ bo.hours = Some(24)
    /\ bo.skip = Some(TRUE)

----------------------------------------------------------------------------
(* Restore: properties *)

\* The snapshot path as it was when the call began.
Chosen == fs0[rst.backupPath]

\* It does not exist, is a directory, is an empty file, or is no database.
Rejectable(f) ==
    \/ f.kind = "absent"
    \/ f.kind = "dir"
    \/ f.kind = "file" /\ Len(f.data) = 0
    \/ f.kind = "file" /\ Len(f.data) > 0 /\ f.data[1] # "SQLite"

\* The target path and its side files are as they were when the call began.
TargetKept == \A i \in 1..Len(TargetPaths) : fs[TargetPaths[i]] = fs0[TargetPaths[i]]

\* C8: when the snapshot path does not exist, is a directory, is an empty
\* file or does not open as a database, Restore returns an error and never
\* gets to a removal or a write: no file is changed at any point of the call.
C8_RejectsBeforeMutation ==
    /\ (rst.pc # "idle" /\ Rejectable(Chosen)) =>
          /\ fs = fs0
          /\ rst.pc \in {"stat", "open", "done"}
          /\ rst.pc = "done" => ~IsNil(rst.err)
    /\ rst.pc \in {"stat", "open"} => fs = fs0

\* C8 witness: a snapshot path that holds no database was rejected, the live
\* database and both side files being there.
C8_Witness ==
    /\ rst.pc = "done"
    /\ ~IsNil(rst.err)
    /\ Chosen = File(<<"junk">>)
    /\ \A i \in 1..Len(TargetPaths) : fs0[TargetPaths[i]].kind = "file"
    /\ TargetKept

\* C9 as claimed: whenever Restore returns an error, at whatever step, the
\* live file set at the target is exactly as it was before the call.
C9_FailedRestoreKeepsLive ==
    (rst.pc = "done" /\ ~IsNil(rst.err)) => TargetKept

\* C10: whenever Restore returns nil, the primary file at the target holds
\* exactly the bytes of the chosen snapshot and neither side file exists; and
\* Restore never fails on the removal of a file that was not there.
C10_RestoredExactly ==
    /\ (rst.pc = "done" /\ IsNil(rst.err)) =>
          /\ Chosen.kind = "file"
          /\ fs["db"] = File(Chosen.data)
          /\ fs[rst.backupPath] = Chosen
          /\ fs["db-wal"].kind = "absent"
          /\ fs["db-shm"].kind = "absent"
    /\ (rst.pc = "done" /\ ~IsNil(rst.err) /\ Val(rst.err)[1] = "remove") =>
          fs0[Val(rst.err)[2]].kind = "file"

\* C10 witness: a restore has succeeded over a live database that had a
\* write-ahead file and no shared-memory file.
C10_Witness ==
    /\ rst.pc = "done"
    /\ IsNil(rst.err)
    /\ fs0["db"].kind = "file"
    /\ fs0["db-wal"].kind = "file"
    /\ fs0["db-shm"].kind = "absent"
    /\ fs["db"] # fs0["db"]

----------------------------------------------------------------------------
(* The snapshot writer: properties *)

\* A step of the Backup call itself.
BackupStep == bk.pc \in {"idle", "mkdir", "vacuum", "copy", "fail"} /\ bk'.pc # bk.pc

\* C11 as claimed: a snapshot written by a successful Backup is never modified
\* or deleted by a later Backup call into the same directory, successful or
\* failed, also when the two calls fall into the same wall-clock second: as
\* long as it is there, every step of Backup leaves it there with its content.
C11_SnapshotsKept ==
    [][ BackupStep =>
          \A n \in DOMAIN made :
             (n \in Entries(dir) /\ dir.files[n] = File(made[n]))
                => (n \in Entries(dir') /\ dir'.files[n] = dir.files[n])
      ]_vars

----------------------------------------------------------------------------
(* The retention pruner and the health probe: properties *)

\* A name of the shape gorss-YYYY-MM-DD-HHMMSS.db.
IsSnapshotName(name) == IsBackupName(name) /\ ParseOK(Stamp(name))

\* The regular files of d that carry a snapshot name.
SnapshotFiles(d) ==
    { n \in Entries(d) : d.files[n].kind = "file" /\ IsSnapshotName(n) }

\* The k lexicographically greatest names of S.
Greatest(S, k) == { n \in S : Cardinality({ m \in S : StringLess(n, m) }) < k }

\* The call removed nothing it failed on and returned no error.
PrunedCleanly == prn.called /\ IsNil(prn.err) /\ prn.failed = {}

\* C14 as claimed: for keep > 0, after a PruneBackups call without a deletion
\* failure the snapshot-named files left are exactly the keep
\* lexicographically greatest snapshot names that were present (all of them
\* when there were at most keep), and these are the newest by embedded
\* timestamp; for keep <= 0 the call returns nil and leaves the directory as
\* it was.
C14_KeepsNewest ==
    prn.called =>
        /\ (prn.keep > 0 /\ PrunedCleanly) =>
              LET S == SnapshotFiles(prn.before)
                  L == SnapshotFiles(prn.after)
              IN /\ L = Greatest(S, prn.keep)
                 /\ \A a \in L, b \in S \ L :
                       ParseTime(Stamp(a)) > ParseTime(Stamp(b))
        /\ prn.keep <= 0 => (IsNil(prn.err) /\ prn.after = prn.before)

\* C15 as claimed: PruneBackups never deletes an entry whose name is not of
\* the shape gorss-YYYY-MM-DD-HHMMSS.db, and such an entry never counts toward
\* the keep entries retained: a call without a deletion failure leaves keep
\* snapshot-named files, or all of them when there were fewer.
C15_OthersIgnored ==
    prn.called =>
        /\ \A n \in Entries(prn.before) :
              ~IsSnapshotName(n) =>
                 (n \in Entries(prn.after) /\ prn.after.files[n] = prn.before.files[n])
        /\ (prn.keep > 0 /\ PrunedCleanly) =>
              Cardinality(SnapshotFiles(prn.after))
                 = Min(prn.keep, Cardinality(SnapshotFiles(prn.before)))

\* C16: PruneBackups is idempotent: a call with the keep value of the call
\* before it, on the directory as that call left it, changes nothing.
C16_Idempotent ==
    (prn.called /\ ~IsNil(prn.prev)) =>
        ((Val(prn.prev).keep = prn.keep /\ Val(prn.prev).after = prn.before)
            => prn.after = prn.before)

\* C16 witness: the first of two calls with the same keep removed entries and
\* failed on one, the second ran on what the first left.
C16_Witness ==
    /\ prn.called
    /\ ~IsNil(prn.prev)
    /\ Val(prn.prev).keep = prn.keep
    /\ Val(prn.prev).after = prn.before
    /\ Entries(Val(prn.prev).after) # Entries(Val(prn.prev).before)
    /\ prn.failed # {}

\* The entries the call had to remove: the collected names but the keep
\* greatest.
PruneTargets ==
    LET M == { n \in Entries(prn.before) :
                 prn.before.files[n].kind # "dir" /\ IsBackupName(n) }
    IN M \ Greatest(M, prn.keep)

\* C17: when the deletion of one candidate fails, PruneBackups skips that
\* file, still attempts every remaining candidate (and removes those it can)
\* and returns nil.
C17_FailureSkipped ==
    (prn.called /\ prn.failed # {}) =>
        /\ IsNil(prn.err)
        /\ Range(prn.tried) = PruneTargets
        /\ \A n \in PruneTargets : n \in Entries(prn.after) <=> n \in prn.failed

\* C17 witness: a call failed on one candidate and removed a later one.
C17_Witness ==
    /\ prn.called
    /\ \E i, j \in 1..Len(prn.tried) :
          /\ i < j
          /\ prn.tried[i] \in prn.failed
          /\ prn.tried[j] \notin Entries(prn.after)

\* C18 as claimed: PruneBackups on a directory that does not exist returns a
\* non-nil error, for every keep value.
C18_MissingDirIsError ==
    (prn.called /\ ~prn.before.exists) => ~IsNil(prn.err)

\* C18 as amended: PruneBackups on a directory that does not exist returns a
\* non-nil error for every keep > 0, returns nil for keep <= 0, and creates
\* nothing either way.
C18_MissingDirIsErrorWhenPruning ==
    (prn.called /\ ~prn.before.exists) =>
        /\ prn.keep > 0 <=> ~IsNil(prn.err)
        /\ prn.after = prn.before

\* C18 witness: a call with keep > 0 on a missing directory returned an error.
C18_Witness ==
    /\ prn.called
    /\ ~prn.before.exists
    /\ prn.keep > 0
    /\ ~IsNil(prn.err)

\* The candidates of the probe that are not empty and open as a database.
ValidSnapshots(d) ==
    { n \in Entries(d) :
        /\ d.files[n].kind = "file"
        /\ IsBackupName(n)
        /\ ParseOK(Stamp(n))
        /\ Len(d.files[n].data) > 0
        /\ IsDatabase(d.files[n].data) }

----------------------------------------------------------------------------
(* The purge loop: properties *)

\* C20: a purge sweep never deletes an article that is starred at the moment
\* of the delete, whatever its age and read state, also when the article was
\* starred between the sweep's count and its delete.
C20_StarredNeverPurged ==
    [][ \A a \in articles \ articles' :
          ~(ArticleKey(a) \in DOMAIN states /\ states[ArticleKey(a)].isStarred)
      ]_vars

\* C20 witness: a sweep deleted an article and spared one that it had counted
\* and that was starred before the delete.
C20_Witness ==
    /\ purge.pc = "idle"
    /\ purge.deleted # {}
    /\ purge.spared # {}

\* The rows a sweep with this cutoff is after: read, not starred, published
\* before the cutoff.
PurgeCandidates(arts, sts, cutoff) ==
    { a \in arts :
        /\ ArticleKey(a) \in DOMAIN sts
        /\ sts[ArticleKey(a)].isRead
        /\ ~sts[ArticleKey(a)].isStarred
        /\ ~IsNil(a.publishedAt)
        /\ Val(a.publishedAt) < cutoff }

\* The sweep runs its delete in this step.
Deletes == purge.pc = "delete" /\ purge'.pc = "idle"

\* C21 as claimed: in every purge run that finds at least one candidate the
\* articles deleted are exactly the candidates that were counted, and the
\* number reported as removed is that count, whatever runs between the count
\* and the delete.
C21_DeletesCounted ==
    [][ Deletes =>
          /\ articles \ articles' = purge.counted
          /\ Cardinality(purge'.deleted) = purge.count
      ]_vars

\* C21 amended: the count is the number of candidates at the count; the
\* articles deleted are exactly the candidates at the delete, for the same
\* cutoff, and the number reported is the number deleted; both are the
\* counted ones when the candidates did not change in between.
C21_DeletesCandidatesAtDelete ==
    [][ /\ (purge.pc = "count" /\ purge'.pc = "delete")
              => /\ purge'.counted = PurgeCandidates(articles, states, purge.cutoff)
                 /\ purge'.count = Cardinality(purge'.counted)
                 /\ purge'.count > 0
        /\ Deletes =>
              LET cands == PurgeCandidates(articles, states, purge.cutoff)
              IN /\ articles \ articles' = cands
                 /\ articles' = articles \ cands
                 /\ purge'.deleted = cands
                 /\ purge.count = Cardinality(purge.counted)
                 /\ cands = purge.counted
                       => Cardinality(purge'.deleted) = purge.count
      ]_vars

\* C21 witness: a sweep has deleted an article and fewer articles than it
\* had counted, an article it counted being listed again by the feed and
\* stored with a new published date before the delete.
C21_Witness ==
    /\ purge.pc = "idle"
    /\ purge.deleted # {}
    /\ Cardinality(purge.deleted) < purge.count
    /\ purge.spared = {}
    /\ \E a \in articles : a.guid = "g1" /\ a.publishedAt = Some(0)

----------------------------------------------------------------------------
(* The periodic loops: properties *)

ArticleKeys(arts) == { ArticleKey(a) : a \in arts }

\* C22: with PurgeDays zero or negative the purge loop is never started: its
\* goroutine does not exist, no sweep begins and no article leaves the store,
\* however long the service runs.
C22_NoPurgeWhenDisabled ==
    [][ purgeDays <= 0 =>
          /\ loops'["purge"] \in {"off", "none"}
          /\ purge = PurgeIdle
          /\ purge' = PurgeIdle
          /\ ArticleKeys(articles) \subseteq ArticleKeys(articles')
      ]_vars

\* C22 witness: PurgeDays is 0, the service has run a refresh pass and taken
\* a snapshot and was then shut down, and the article that is read and older
\* than the instant of start is still stored.
C22_Witness ==
    /\ purgeDays = 0
    /\ loops["purge"] = "none"
    /\ loops["refresh"] = "exit"
    /\ loops["backup"] = "exit"
    /\ ~IsNil(feeds[1].lastUpdated)
    /\ DOMAIN made # {}
    /\ PurgeCandidates(articles, states, now - 24 * purgeDays) # {}

\* C30: once the shared context is cancelled every periodic loop that was
\* started exits in the end, and a loop exits only from its select, with no
\* pass, sweep or backup of its own in progress.
C30_LoopsExit ==
    /\ cancelled ~> (\A l \in LoopNames : loops[l] \in {"exit", "none"})
    /\ [][ \A l \in LoopNames :
             (loops'[l] = "exit" /\ loops[l] # "exit")
                => /\ cancelled
                   /\ loops[l] \in {"select", "wait"}
                   /\ Between(l)
                   /\ UNCHANGED <<feeds, articles, states, dir, pass, purge, bk>>
         ]_vars

\* C30 witness: the context was cancelled while the refresh pass, the first
\* sweep and a backup were in progress; each ran to its end and all three
\* loops have exited.
C30_Witness ==
    /\ cancelled
    /\ \A l \in LoopNames : loops[l] = "exit"
    /\ last.outcome = "error"
    /\ last.err = Some("fetch: context canceled")
    /\ purge.deleted # {}
    /\ DOMAIN made # {}

----------------------------------------------------------------------------
(* Ingestion: properties *)

\* The article rows of feed f the items would be stored as.
RowsOf(f, items) ==
    { [feedId |-> f, guid |-> items[i].GUID, url |-> items[i].URL,
       title |-> items[i].Title, publishedAt |-> items[i].PublishedAt] :
      i \in 1..Len(items) }

\* The natural key of a served item: its guid, or its link when it has none.
NaturalKey(item) == IF item.guid = "" THEN item.link ELSE item.guid

\* The items feed f would store from the response resp at this instant.
Ingestible(f, resp) ==
    LET r == Fetch(f, resp)
    IN IF r.kind = "ok" THEN FilteredItems(r.result.Items, now) ELSE <<>>

\* C23: no two stored articles of one feed share a natural key (the guid,
\* or the link of an item without guid); an item whose key is stored
\* overwrites that article's fields and adds no row, so that storing the
\* same fetched items once more leaves the articles as they are.
C23_NaturalKeyUnique ==
    /\ \A a, b \in articles : ArticleKey(a) = ArticleKey(b) => a = b
    /\ \A a \in articles :
          \E resp \in remote : \E i \in 1..Len(resp.items) :
             /\ a.guid = NaturalKey(resp.items[i])
             /\ a.url = resp.items[i].link
             /\ a.title = resp.items[i].title
             /\ a.publishedAt = resp.items[i].published
    /\ \A f \in DOMAIN feeds, resp \in remote :
          LET items == Ingestible(f, resp)
              once == InsertArticles(articles, f, items)
          IN /\ InsertArticles(once, f, items) = once
             /\ ArticleKeys(once) = ArticleKeys(articles) \cup ArticleKeys(RowsOf(f, items))
             /\ \A i \in 1..Len(items) :
                   (\A j \in (i + 1)..Len(items) : items[j].GUID # items[i].GUID)
                      => RowsOf(f, <<items[i]>>) \subseteq once

\* C23 witness: a feed was subscribed from the document that lists g1 as
\* "a1", a refresh then fetched the document that lists it as "a1b", and the
\* feed's one article of key g1 carries the new title; the item without guid
\* is stored under its link.
C23_Witness ==
    /\ sub.outcome = "created"
    /\ sub.items # <<>>
    /\ sub.items[1].Title = "a1"
    /\ last.outcome = "ok"
    /\ last.feed = sub.url
    /\ \E a \in articles : a.feedId = sub.url /\ a.guid = "g1" /\ a.title = "a1b"
    /\ \E a \in articles : a.feedId = sub.url /\ a.guid = "u2"

\* The places of the list whose item is undated or published after the cutoff.
KeptPlaces(items, cutoff) ==
    { i \in 1..Len(items) :
        IsNil(items[i].PublishedAt) \/ Val(items[i].PublishedAt) > cutoff }

\* The k-th smallest member of a set of numbers.
Nth(S, k) == CHOOSE i \in S : Cardinality({ j \in S : j < i }) = k - 1

\* C24: filterOldItems returns exactly the items that are undated or
\* published strictly after the cutoff, in their order in the argument; an
\* item published at the cutoff is dropped.
C24_FilterKeepsNewer ==
    ~IsNil(flt.out) =>
       LET out == Val(flt.out)
           kept == KeptPlaces(flt.items, flt.cutoff)
       IN /\ Len(out) = Cardinality(kept)
          /\ \A k \in 1..Len(out) : out[k] = flt.items[Nth(kept, k)]
          /\ \A k \in 1..Len(out) : out[k].PublishedAt # Some(flt.cutoff)

\* C24 witness: of three items, one published at the cutoff, one undated
\* and one published an hour after it, the call returned the last two in
\* that order.
C24_Witness ==
    /\ ~IsNil(flt.out)
    /\ Len(flt.items) = 3
    /\ flt.items[1].PublishedAt = Some(flt.cutoff)
    /\ flt.items[2].PublishedAt = Nil
    /\ flt.items[3].PublishedAt = Some(flt.cutoff + 1)
    /\ Val(flt.out) = << flt.items[2], flt.items[3] >>

\* The items that pass the age filter at instant t: those without a
\* published date and those published after t minus PurgeDays days; all of
\* them when PurgeDays is 0.
Fresh(items, t) ==
    IF purgeDays = 0 THEN items
    ELSE SelectSeq(items, LAMBDA item :
                     IsNil(item.PublishedAt)
                     \/ Val(item.PublishedAt) > t - 24 * purgeDays)

\* C25: with PurgeDays D > 0 no ingestion path (subscribe, OPML import,
\* refresh) stores an item published at or before now minus D days, every
\* path stores exactly the fetched items that are newer than that or
\* undated, and with D = 0 every path stores every fetched item.
C25_AgeFilterOnEveryPath ==
    [][ /\ purgeDays > 0
             => \A a \in articles' \ articles :
                   IsNil(a.publishedAt) \/ Val(a.publishedAt) > now - 24 * purgeDays
        /\ (sub' # sub /\ sub'.outcome = "created")
             => articles' = InsertArticles(articles, sub'.url, Fresh(sub'.items, now))
        /\ \A p \in DOMAIN pass :
             (Iterates(p) /\ last'.outcome = "ok")
                => \E resp \in remote :
                      articles' = InsertArticles(articles, Loaded(p).id,
                                      Fresh(Fetch(Loaded(p).url, resp).result.Items, now))
        /\ articles' # articles
             => \/ sub' # sub /\ sub'.outcome = "created"
                \/ \E p \in DOMAIN pass : Iterates(p) /\ last'.outcome = "ok"
      ]_vars

\* C25 witness: with PurgeDays 1 an import created a feed from a document
\* that lists an item published a day ago to the hour, and a later refresh
\* fetched a document with an item two days old; neither item is stored,
\* the newer and the undated ones are.
C25_Witness ==
    /\ purgeDays = 1
    /\ sub.path = "import"
    /\ sub.outcome = "created"
    /\ sub.at = 0
    /\ now = 0
    /\ \E i \in 1..Len(sub.items) : sub.items[i].PublishedAt = Some(0 - 24)
    /\ last.outcome = "ok"
    /\ last.feed = sub.url
    /\ ArticleKeys({ a \in articles : a.feedId = sub.url })
          = { <<sub.url, "g1">>, <<sub.url, "g3">> }

----------------------------------------------------------------------------
(* The fetched document and the stored feed: properties *)

\* The responses the successful refresh of this step may have fetched: those
\* that parse and whose validators are the ones stored by the step.
FetchedBy(id) ==
    { r \in remote :
        /\ r.net = "ok"
        /\ r.status # 304
        /\ r.parses
        /\ feeds'[id].etag = r.etag
        /\ feeds'[id].lastModified = r.lastModified }

\* C26 as claimed: a successful fetch whose parsed title is empty keeps the
\* title the feed had stored before; a non-empty parsed title replaces it.
C26_TitleKeptWhenEmpty ==
    [][ \A p \in DOMAIN pass :
          (Iterates(p) /\ last'.outcome = "ok") =>
             LET id == Loaded(p).id
             IN \E r \in FetchedBy(id) :
                   feeds'[id].title = IF r.title = "" THEN feeds[id].title ELSE r.title
      ]_vars

\* C27 as claimed: a successful fetch replaces the stored site URL and the
\* stored description only with a parsed value that is not empty; an empty
\* parsed value leaves the stored one.
C27_EmptyFieldsKeepStored ==
    [][ \A p \in DOMAIN pass :
          (Iterates(p) /\ last'.outcome = "ok") =>
             LET id == Loaded(p).id
             IN \E r \in FetchedBy(id) :
                   /\ feeds'[id].siteUrl
                         = IF r.link = "" THEN feeds[id].siteUrl ELSE r.link
                   /\ feeds'[id].description
                         = IF r.description = "" THEN feeds[id].description
                           ELSE r.description
      ]_vars

\* C28 as claimed: RefreshFeed(feedID) applies no backoff skip: whatever the
\* feed's error count and last attempt, the call issues the fetch.
C28_DirectRefreshNeverSkips ==
    last.proc = "RefreshFeed" => (last.fetched /\ last.outcome # "skip")

\* C29 as claimed: a response whose status is neither a success nor 304
\* yields FetchError even when its body parses: none of its items is stored
\* and the feed is never left as after a success on it, with the response's
\* validators and no error.
C29_ErrorStatusIsFetchError ==
    \A r \in remote :
       (r.net = "ok" /\ r.status # 304 /\ ~(r.status \in 200..299)) =>
          /\ \A a \in articles : \A i \in 1..Len(r.items) :
                a.guid # NaturalKey(r.items[i])
          /\ \A f \in DOMAIN feeds :
                ~(feeds[f].etag = r.etag /\ feeds[f].errorCount = 0
                  /\ IsNil(feeds[f].lastError))

----------------------------------------------------------------------------
(* The restore command *)

NextCommand ==
    \/ \E flagRestore \in {"snap", "db"}, answer \in Answers : RunRestore(flagRestore, answer)
    \/ RestoreStat
    \/ RestoreValidate
    \/ RestoreRemove
    \/ RestoreRead
    \/ RestoreWrite
    \/ RunRestoreReturn

SpecCommand == InitRestore /\ [][NextCommand]_vars

Consent == {"y", "Y"}

\* C33: the restore command prints its warning before anything else; it
\* calls Restore when the answer read is y or Y, and on every other answer,
\* the empty one included, it has returned nil with the file system as it
\* found it and no Restore call made.
C33_RestoreOnlyOnConsent ==
    /\ cmd.pc # "none" => cmd.warned
    /\ rst.pc # "idle" => cmd.answer \in Consent
    /\ (cmd.pc # "none" /\ cmd.answer \in Consent) => rst.pc # "idle"
    /\ (cmd.pc # "none" /\ cmd.answer \notin Consent) =>
          /\ cmd.pc = "returned"
          /\ IsNil(cmd.err)
          /\ rst = RestoreIdle
          /\ fs = fs0

\* The operator pressed Enter at the question, with a good snapshot at hand
\* and a live datastore in place.
C33_Witness ==
    /\ cmd.pc = "returned"
    /\ cmd.answer = ""
    /\ fs["snap"] = File(<<"SQLite", "rows5">>)
    /\ fs["db"] = File(<<"SQLite", "live">>)

----------------------------------------------------------------------------
(* Overlapping writers of one feed row: properties *)

\* C34 as claimed: when two refreshAll passes overlap and fetch the same
\* feed, every attempt that ends in FetchError makes the stored error count
\* one more than it was stored just before (two failures raise it by two),
\* and every attempt that ends in success or NotModified leaves it at 0,
\* whatever count the other pass had loaded.
C34_OverlapCountsEachFailure ==
    [][ \A p \in DOMAIN pass :
          Iterates(p) =>
             LET id == Loaded(p).id
             IN /\ last'.outcome = "error"
                     => feeds'[id].errorCount = feeds[id].errorCount + 1
                /\ last'.outcome \in {"ok", "notmod"} => feeds'[id].errorCount = 0
      ]_vars

\* C35 as claimed: a refresh that ends in NotModified or FetchError leaves
\* the stored title as it is at the meta write, so that a title edited after
\* the pass loaded its rows survives.
C35_TitleSurvivesRefresh ==
    [][ \A p \in DOMAIN pass :
          (Iterates(p) /\ last'.outcome \in {"notmod", "error"}) =>
             feeds'[Loaded(p).id].title = feeds[Loaded(p).id].title
      ]_vars

----------------------------------------------------------------------------
(* The periodic loops after cancellation: properties *)

\* The loop l begins a unit of work in this step.
Begins(l) ==
    CASE l = "refresh" -> pass["ticker"].pc = "idle" /\ pass'["ticker"].pc # "idle"
      [] l = "purge" -> purge.pc = "idle" /\ purge'.pc # "idle"
      [] l = "backup" -> bk.pc = "idle" /\ bk'.pc # "idle"

\* C36 as claimed: once the shared context is cancelled no periodic loop
\* begins a unit of work: no refreshAll pass, no purge sweep (the first one
\* after the startup delay included), no snapshot.
C36_NoWorkAfterCancel ==
    [][ cancelled => \A l \in LoopNames : ~Begins(l) ]_vars

----------------------------------------------------------------------------
(* The backup cycle of runBackup, in a zone of its own *)

\* A process in local time two seconds west of UTC, in UTC or two seconds
\* east; the backup directory missing, or holding any of: the snapshot of
\* second 9 by that clock, a file gorss-z.db and a file other.txt.
InitCycle ==
    /\ RefreshInit({"ticker"}, {1}, {}, {1})
    /\ bo = BackoffIdle
    /\ fs = [path \in {} |-> NoFile]
    /\ fs0 = fs
    /\ rst = RestoreIdle
    /\ PurgeOff
    /\ LoopsOff
    /\ IngestIdle
    /\ cmd = NoCommand
    /\ req = NoRequest
    /\ \E tz \in {0 - 2, 0, 2} : env = [GORSS_BACKUP_DIR |-> "backups", TZ |-> tz]
    /\ wall = 10
    /\ store = [rows |-> 2, pending |-> 0]
    /\ bk = BackupIdle
    /\ made = [n \in {} |-> <<>>]
    /\ prn = NoPrune
    /\ probe = NoProbe
    /\ \/ dir = NoDir
       \/ \E old \in SUBSET { SnapshotName(LocalTime(9)) },
              others \in SUBSET { <<"gorss-", "z", ".db">>, <<"other", ".txt">> } :
            dir = [exists |-> TRUE,
                   files |-> [n \in old \cup others |->
                                IF n \in old THEN File(Image(2)) ELSE File(<<"x">>)],
                   locked |-> {}]

NextCycle ==
    \/ BackupCall
    \/ BackupMkdir
    \/ BackupVacuum
    \/ BackupCopy
    \/ BackupFail
    \/ RunBackupPrune(LoopsKeep)
    \/ RunBackupFailed
    \/ TickSecond
    \/ CallLatestBackupAge

SpecCycle == InitCycle /\ [][NextCycle]_vars

\* C37 as claimed: when LatestBackupAge is called at t' and the newest valid
\* snapshot of the directory is the one the last Backup wrote, at t <= t',
\* it returns t' - t, which is not negative, in every time zone.
C37_AgeOfOwnSnapshot ==
    ( /\ probe.called
      /\ bk.pc = "done"
      /\ IsNil(bk.err)
      /\ bk.at <= probe.at
      /\ latestValidBackup(probe.dir, probe.at).path = bk.path )
    => /\ probe.age = probe.at - bk.at
       /\ probe.age >= 0

\* C38 as claimed: when Backup has succeeded and runBackup prunes with
\* keep >= 1, the snapshot just written is in the directory afterwards,
\* whatever else the directory holds; when Backup has failed, runBackup
\* leaves the directory as it is.
C38_CycleKeepsItsSnapshot ==
    [][ /\ (bk.pc = "done" /\ IsNil(bk.err) /\ bk'.pc = "idle" /\ prn'.keep >= 1)
            => bk.path \in Entries(dir')
        /\ (bk.pc = "done" /\ ~IsNil(bk.err) /\ bk'.pc = "idle") => dir' = dir
      ]_vars

----------------------------------------------------------------------------
(* The refresh-now request *)

\* Two feeds never refreshed; one request, whose context may end at any
\* moment from the handler's return on.
InitManual ==
    /\ RefreshInit({"manual"}, {1, 2}, BasicResponses, {1})
    /\ OthersIdle

NextManual ==
    \/ HandleRefresh
    \/ RequestEnds
    \/ ManualStart
    \/ ManualNext
    \/ EndPass("manual")
    \/ Tick

SpecManual == InitManual /\ [][NextManual]_vars

\* C31: the handler answers without running any part of the pass; the pass
\* it started loads every feed whether or not the request has ended, no
\* iteration of it fails on a cancelled context, every feed it attempts gets
\* its attempt recorded, and it ends only when each loaded feed has had its
\* one iteration.
C31_ManualPassOutlivesRequest ==
    [][ /\ (req.pc = "none" /\ req'.pc # "none")
            => /\ pass' = pass
               /\ feeds' = feeds
               /\ req'.pc = "spawned"
        /\ (req.pc = "spawned" /\ req'.pc # "spawned")
            => /\ req'.pc = "started"
               /\ pass'["manual"].pc = "run"
               /\ Len(pass'["manual"].loaded) = Cardinality(DOMAIN feeds)
        /\ Iterates("manual")
            => /\ last'.err # Some("fetch: context canceled")
               /\ last'.outcome # "skip"
                     => feeds'[Loaded("manual").id].lastUpdated = Some(now)
        /\ (pass["manual"].pc = "run" /\ pass'["manual"].pc = "idle")
            => \A f \in DOMAIN feeds : handled["manual"][f] = 1
      ]_vars

\* The request had ended before the pass loaded its feeds, and the pass has
\* run to its end, the last feed fetched with success.
C31_Witness ==
    /\ req.pc = "started"
    /\ req.early
    /\ pass["manual"].pc = "idle"
    /\ \A f \in DOMAIN feeds : handled["manual"][f] = 1
    /\ last.outcome = "ok"

----------------------------------------------------------------------------
(* The sweep and a source that goes on listing what was purged *)

\* The feed's document lists the two stored articles, each with the
\* published time it is stored with.
RelistResponse ==
    Response("ok", 200, TRUE, "T1", "S1", "D1",
             << Item("g1", "u1", "a1", Some(0 - 30)),
                Item("g2", "u2", "a2", Some(0 - 23)) >>, "E1", "L1")

\* As InitSweep, with that document (or a 304) as the source's answer.
InitRelist ==
    /\ now = 0
    /\ purgeDays = 1
    /\ remote = { RelistResponse } \cup { r \in Responses : r.status = 304 }
    /\ feeds = [id \in {1} |-> NewFeed(id)]
    /\ articles = { [feedId |-> 1, guid |-> "g1", url |-> "u1", title |-> "a1",
                     publishedAt |-> Some(0 - 30)],
                    [feedId |-> 1, guid |-> "g2", url |-> "u2", title |-> "a2",
                     publishedAt |-> Some(0 - 23)] }
    /\ pass = [p \in {"ticker"} |-> Idle]
    /\ handled = [p \in {"ticker"} |-> [f \in {1} |-> 0]]
    /\ last = NoCall
    /\ OthersIdle

SpecRelist == InitRelist /\ [][NextSweep]_vars

\* C39: with PurgeDays > 0 and a clock that never goes back, no step stores
\* an article that is not stored already: every item the source lists is
\* stored from the start with the published time the source gives it and
\* only the sweep deletes, so an article that is missing is one the sweep
\* has deleted, and no refresh brings it back.
C39_PurgedStaysPurged ==
    [][ ArticleKeys(articles') \subseteq ArticleKeys(articles) ]_vars

\* The sweep has deleted an article, and a refresh begun at a later hour has
\* fetched the document that lists it and has ended in success.
C39_Witness ==
    /\ purge.pc = "idle"
    /\ purge.deleted # {}
    /\ last.outcome = "ok"
    /\ ~IsNil(feeds[1].lastUpdated)
    /\ Val(feeds[1].lastUpdated) > purge.cutoff + 24 * purgeDays
    /\ ArticleKeys(articles) # { <<1, "g1">>, <<1, "g2">> }

----------------------------------------------------------------------------
(* Serve: what the service starts *)

\* The service about to start, GORSS_BACKUP_DIR unset or naming a directory,
\* any sign of PurgeDays; else as InitLoops.
InitServe ==
    /\ now = 0
    /\ purgeDays \in {0 - 1, 0, 1}
    /\ remote = { r \in Responses : r.status = 304 }
    /\ feeds = [id \in {1} |-> NewFeed(id)]
    /\ articles = { [feedId |-> 1, guid |-> "g1", url |-> "u1", title |-> "a1",
                     publishedAt |-> Some(0 - 30)] }
    /\ pass = [p \in {"ticker"} |-> Idle]
    /\ handled = [p \in {"ticker"} |-> [f \in {1} |-> 0]]
    /\ last = NoCall
    /\ bo = BackoffIdle
    /\ fs = [path \in {} |-> NoFile]
    /\ fs0 = fs
    /\ rst = RestoreIdle
    /\ wall = 10
    /\ store = [rows |-> 2, pending |-> 0]
    /\ dir = NoDir
    /\ bk = BackupIdle
    /\ made = [n \in {} |-> <<>>]
    /\ prn = NoPrune
    /\ probe = NoProbe
    /\ states = [k \in { <<1, "g1">> } |-> [isRead |-> TRUE, isStarred |-> FALSE]]
    /\ purge = PurgeIdle
    /\ LoopsOff
    /\ IngestIdle
    /\ cmd = NoCommand
    /\ req = NoRequest
    /\ \E d \in {"", "backups"} : env = [GORSS_BACKUP_DIR |-> d, TZ |-> 0]

\* Serve calls StartBackgroundRefresh and StartAutoPurge on the context it
\* made and then blocks in http.ListenAndServe; the goroutines it started
\* run, and the clocks. It reads GORSS_PORT, GORSS_REFRESH_INTERVAL and
\* GORSS_PURGE_DAYS from the environment, and nothing else.
NextServe ==
    \/ StartBackgroundRefresh
    \/ StartAutoPurge
    \/ RefreshLoopTick
    \/ RefreshLoopNext
    \/ EndPass("ticker")
    \/ PurgeLoopWake
    \/ PurgeLoopTick
    \/ PurgeCount
    \/ PurgeDelete
    \/ Tick
    \/ TickSecond

\* Serve runs on, its goroutines are scheduled, the timers fire and the
\* clocks advance.
ServeFairness ==
    /\ WF_vars(StartBackgroundRefresh)
    /\ WF_vars(StartAutoPurge)
    /\ WF_vars(RefreshLoopTick)
    /\ WF_vars(RefreshLoopNext)
    /\ WF_vars(EndPass("ticker"))
    /\ WF_vars(PurgeLoopWake)
    /\ WF_vars(PurgeLoopTick)
    /\ WF_vars(PurgeCount)
    /\ WF_vars(PurgeDelete)
    /\ WF_vars(Tick)
    /\ WF_vars(TickSecond)

SpecServe == InitServe /\ [][NextServe]_vars /\ ServeFairness

\* C32 as claimed: with GORSS_BACKUP_DIR not empty the running service comes
\* to take a first snapshot (a Backup call begins, unless the service is
\* cancelled first), and every Backup that succeeds is followed by
\* PruneBackups with the retain count before the next one begins; with
\* GORSS_BACKUP_DIR empty no Backup call is ever made and the backup
\* directory is never touched.
C32_PeriodicSnapshots ==
    /\ (env.GORSS_BACKUP_DIR # "") ~> (cancelled \/ bk.pc # "idle")
    /\ [][ /\ (bk.pc = "done" /\ IsNil(bk.err) /\ bk'.pc # "done")
                => (prn'.called /\ prn'.keep = LoopsKeep /\ prn'.before = dir)
           /\ env.GORSS_BACKUP_DIR = "" => (bk' = bk /\ dir' = dir)
         ]_vars

----------------------------------------------------------------------------
(* The refresh loop over more feeds than one pass takes *)

\* The longest backoff window of the model, in hours.
Horizon == backoffHours(MaxErrors)

\* A loaded row an hour later: its attempt time an hour further back from
\* now, times a Horizon or more back being all alike to shouldSkipFeed.
Aged(row) ==
    IF IsNil(row.lastUpdated) THEN row
    ELSE LET v == Val(row.lastUpdated) - 1
         IN [row EXCEPT !.lastUpdated = Some(IF v < now - Horizon THEN now - Horizon ELSE v)]

\* The stored attempt times that are more than a Horizon back an hour later.
Stale(tbl) ==
    { Val(tbl[id].lastUpdated) - 1 : id \in { i \in DOMAIN tbl : ~IsNil(tbl[i].lastUpdated) } }
    \cap { v \in Int : v < now - Horizon }

\* A stored row an hour later. Of the times more than a Horizon back only the
\* order matters, to the query's ORDER BY: they are kept in order, packed
\* next to the Horizon.
AgedIn(tbl, row) ==
    IF IsNil(row.lastUpdated) THEN row
    ELSE LET v == Val(row.lastUpdated) - 1
             rank == Cardinality({ w \in Stale(tbl) : w >= v })
         IN [row EXCEPT !.lastUpdated = Some(IF v < now - Horizon THEN now - Horizon - rank
                                             ELSE v)]

\* An hour passes. The clock's reading is kept and every attempt time, stored
\* or loaded, moves an hour back instead, so that time never runs out.
TickAging ==
    /\ feeds' = [id \in DOMAIN feeds |-> AgedIn(feeds, feeds[id])]
    /\ pass' = [p \in DOMAIN pass |->
                  [pass[p] EXCEPT !.loaded = [i \in DOMAIN pass[p].loaded |->
                                                Aged(pass[p].loaded[i])]]]
    /\ UNCHANGED <<now, purgeDays, remote, articles, handled, last>>
    /\ UNCHANGED <<backoffVars, restoreVars, snapshotVars, purgeVars, loopVars, ingestVars, entryVars>>

\* "case <-ticker.C: s.refreshAllFeeds(ctx)" with the LIMIT of the query
\* scaled to BatchLimit.
StartPassScaled(p) ==
    /\ pass[p].pc = "idle"
    /\ \E rows \in GetAllFeedsForRefresh(feeds, BatchLimit) :
          pass' = [pass EXCEPT ![p] = [pc |-> "run", loaded |-> rows, idx |-> 1]]
    /\ handled' = [handled EXCEPT ![p] = [f \in DOMAIN feeds |-> 0]]
    /\ UNCHANGED <<now, purgeDays, remote, feeds, articles, last>>
    /\ UNCHANGED <<backoffVars, restoreVars, snapshotVars, purgeVars, loopVars, ingestVars, entryVars>>

\* One feed more than a pass takes, none refreshed yet; every fetch may fail
\* or answer 304.
InitStarve ==
    /\ RefreshInit({"ticker"}, 1..(BatchLimit + 1),
                   { r \in Responses : r.net = "fail" \/ r.status = 304 }, {1})
    /\ OthersIdle

NextStarve ==
    \/ StartPassScaled("ticker")
    \/ RefreshNext("ticker")
    \/ EndPass("ticker")
    \/ TickAging

\* The ticker goes on firing, the pass it starts goes on running, time goes
\* on passing.
StarveFairness ==
    /\ WF_vars(StartPassScaled("ticker"))
    /\ WF_vars(RefreshNext("ticker"))
    /\ WF_vars(EndPass("ticker"))
    /\ WF_vars(TickAging)

SpecStarve == InitStarve /\ [][NextStarve]_vars /\ StarveFairness

\* The most recent refreshFeedInternal call was on feed f and got as far as
\* the fetch.
Attempted(f) == last.feed = f /\ last.fetched

\* C40: under the refresh loop, with time passing, every feed is attempted
\* again and again, whatever the other feeds do: also with more feeds than
\* the batch limit and feeds that fail and wait out their backoff at the
\* front of the least-recently-updated order.
C40_EveryFeedAttempted ==
    \A f \in 1..(BatchLimit + 1) : []<>Attempted(f)

\* A pass has loaded its batch, more feeds are stored than it took, and the
\* feed at the head of the batch is in its backoff window while a feed left
\* out of the batch is not.
C40_Witness ==
    /\ pass["ticker"].pc = "run"
    /\ pass["ticker"].idx = 1
    /\ Len(pass["ticker"].loaded) < Cardinality(DOMAIN feeds)
    /\ shouldSkipFeed(pass["ticker"].loaded[1], now)
    /\ \E f \in DOMAIN feeds :
          /\ \A i \in 1..Len(pass["ticker"].loaded) : pass["ticker"].loaded[i].id # f
          /\ ~shouldSkipFeed(feeds[f], now)
          /\ ~IsNil(feeds[f].lastUpdated)

====
